---- MODULE Spec2Model ----
(***************************************************************************)
(* Model of the COT dashboard's data layer (cot_data.py) and of the        *)
(* dashboard handlers that consume it (cot_dashboard.py).                  *)
(*                                                                         *)
(* Conventions of the model                                                *)
(*  - A raw field value of an API row is a record [k, v]: k is the shape   *)
(*    of the value ("num": the number or numeric string v, "bad": an empty *)
(*    or malformed string, "none": a missing field / None, "nan": the      *)
(*    string "nan", "inf": a non-finite numeric string such as "inf").     *)
(*  - A report date is a natural number d: d >= 1 stands for the d-th ISO  *)
(*    date "YYYY-MM-DD" in calendar order; a report_date of a snapshot or  *)
(*    of the dashboard is a record [d, kind] that tells the formatted date *)
(*    from the sentinels "No Data Available" and "Loading...".             *)
(*  - A percentage rounded to one decimal is held in tenths (33.3 is 333). *)
(*  - A Python call either returns a value or raises; operators that model *)
(*    code which can raise return a record with an exc field.              *)
(*  - A symbol string is the sequence of its "/"-separated components, so  *)
(*    that the cache path join of _get_cache_path can be computed.         *)
(*  - Time is counted in hours.                                            *)
(***************************************************************************)
EXTENDS Integers, Sequences, FiniteSets, TLC

VARIABLES cache, now, call, latestIn, histIn, saveIn, queries, ret, dash, data

vars == <<cache, now, call, latestIn, histIn, saveIn, queries, ret, dash, data>>

\* ------------------------------------------------------------------------
\* Bounds of the model
\* ------------------------------------------------------------------------
MaxDate == 2       \* report dates are 1..MaxDate
MaxPos == 2        \* position fields of the pure row inputs are -1..MaxPos
MaxNow == 24       \* the clock stops at MaxNow hours
TickHours == 12    \* the clock advances in steps of TickHours
MaxRows == 3       \* rows the remote source holds for one symbol

\* ------------------------------------------------------------------------
\* Binary floating point
\* ------------------------------------------------------------------------
\* The float of Python and numpy is the IEEE 754 double: every operation
\* returns the double nearest to its exact result, the one with the even
\* significand of two equally near. A double is held here as the exact
\* number s * m * 2^e it stands for (s the sign, 0 for zero, m a natural
\* number of at most 54 bits, e an integer), and the natural numbers of the
\* arithmetic, which exceed 32-bit integers, as
\* little-endian sequences of limbs below Base without a leading zero limb.
\* Overflow, underflow and subnormal numbers are out of reach of the values
\* of the model.
Base == 2 ^ 15

RECURSIVE Pow2(_)
Pow2(k) == IF k = 0 THEN 1 ELSE 2 * Pow2(k - 1)

RECURSIVE BitLen(_)
BitLen(n) == IF n = 0 THEN 0 ELSE 1 + BitLen(n \div 2)

RECURSIVE BigOfNat(_)
BigOfNat(n) == IF n = 0 THEN <<>> ELSE <<n % Base>> \o BigOfNat(n \div Base)

RECURSIVE BigToNat(_)
BigToNat(a) == IF a = <<>> THEN 0 ELSE a[1] + Base * BigToNat(Tail(a))

RECURSIVE BigNorm(_)
BigNorm(a) ==
    IF a # <<>> /\ a[Len(a)] = 0 THEN BigNorm(SubSeq(a, 1, Len(a) - 1)) ELSE a

Limb(a, i) == IF i <= Len(a) THEN a[i] ELSE 0

Rest(a) == IF a = <<>> THEN <<>> ELSE Tail(a)

\* a + b + c, for a carry c of 0 or 1.
RECURSIVE BigAdd(_, _, _)
BigAdd(a, b, c) ==
    IF a = <<>> /\ b = <<>> THEN BigOfNat(c)
    ELSE <<(Limb(a, 1) + Limb(b, 1) + c) % Base>>
         \o BigAdd(Rest(a), Rest(b), (Limb(a, 1) + Limb(b, 1) + c) \div Base)

\* The limbs of a - b - c, for a >= b + c and a borrow c of 0 or 1.
RECURSIVE BigSubLimbs(_, _, _)
BigSubLimbs(a, b, c) ==
    IF a = <<>> THEN <<>>
    ELSE <<(a[1] - Limb(b, 1) - c) % Base>>
         \o BigSubLimbs(Tail(a), Rest(b),
                        IF a[1] - Limb(b, 1) - c < 0 THEN 1 ELSE 0)

BigSub(a, b) == BigNorm(BigSubLimbs(a, b, 0))

RECURSIVE BigCmpFrom(_, _, _)
BigCmpFrom(a, b, i) ==
    IF i = 0 THEN 0
    ELSE IF a[i] > b[i] THEN 1
    ELSE IF a[i] < b[i] THEN -1
    ELSE BigCmpFrom(a, b, i - 1)

\* The sign of a - b.
BigCmp(a, b) ==
    IF Len(a) > Len(b) THEN 1
    ELSE IF Len(a) < Len(b) THEN -1
    ELSE BigCmpFrom(a, b, Len(a))

\* a * d + c for a limb d >= 1 and c below Base.
RECURSIVE BigMulSmall(_, _, _)
BigMulSmall(a, d, c) ==
    IF a = <<>> THEN BigOfNat(c)
    ELSE <<(a[1] * d + c) % Base>>
         \o BigMulSmall(Tail(a), d, (a[1] * d + c) \div Base)

RECURSIVE BigMulLimbs(_, _)
BigMulLimbs(a, b) ==
    IF b = <<>> THEN <<>>
    ELSE BigAdd(IF b[1] = 0 THEN <<>> ELSE BigMulSmall(a, b[1], 0),
                IF Len(b) = 1 THEN <<>> ELSE <<0>> \o BigMulLimbs(a, Tail(b)),
                0)

BigMul(a, b) == IF a = <<>> THEN <<>> ELSE BigNorm(BigMulLimbs(a, b))

\* a * 2^k.
BigShl(a, k) ==
    IF a = <<>> THEN <<>>
    ELSE [i \in 1..(k \div 15) |-> 0] \o BigMulSmall(a, Pow2(k % 15), 0)

\* a \div 2^k.
BigShr(a, k) ==
    BigNorm([i \in 1..(Len(a) - (k \div 15)) |->
                a[i + (k \div 15)] \div Pow2(k % 15)
                + (Limb(a, i + (k \div 15) + 1) % Pow2(k % 15))
                  * Pow2(15 - (k % 15))])

BigBitLen(a) ==
    IF a = <<>> THEN 0 ELSE (15 * (Len(a) - 1)) + BitLen(a[Len(a)])

\* The bit of weight 2^i of a.
BigBit(a, i) == (Limb(a, (i \div 15) + 1) \div Pow2(i % 15)) % 2

\* The bits of a below 2^k are all 0.
BigLowZero(a, k) ==
    /\ \A i \in 1..(k \div 15) : Limb(a, i) = 0
    /\ Limb(a, (k \div 15) + 1) % Pow2(k % 15) = 0

\* The division of a by a limb d, the limbs above the i-th done.
RECURSIVE BigDivSmallFrom(_, _, _, _, _)
BigDivSmallFrom(a, d, i, q, r) ==
    IF i = 0 THEN [q |-> BigNorm(q), r |-> BigOfNat(r)]
    ELSE BigDivSmallFrom(a, d, i - 1, <<(r * Base + a[i]) \div d>> \o q,
                         (r * Base + a[i]) % d)

\* The largest digit q + x with x below 2^b and (q + x) * d <= r, for
\* q * d <= r.
RECURSIVE BigDigitFrom(_, _, _, _)
BigDigitFrom(r, d, q, b) ==
    IF b = 0 THEN q
    ELSE IF BigCmp(BigMulSmall(d, q + Pow2(b - 1), 0), r) <= 0
    THEN BigDigitFrom(r, d, q + Pow2(b - 1), b - 1)
    ELSE BigDigitFrom(r, d, q, b - 1)

\* The long division of n by d, the limbs above the i-th done: r1 is the
\* remainder so far with the i-th limb of n appended, digit its quotient
\* by d.
RECURSIVE BigDivFrom(_, _, _, _, _)
BigDivDigit(n, d, i, q, r1, digit) ==
    BigDivFrom(n, d, i, <<digit>> \o q,
               IF digit = 0 THEN r1
               ELSE BigSub(r1, BigMulSmall(d, digit, 0)))

BigDivNext(n, d, i, q, r1) ==
    BigDivDigit(n, d, i, q, r1, BigDigitFrom(r1, d, 0, 15))

BigDivFrom(n, d, i, q, r) ==
    IF i = 0 THEN [q |-> BigNorm(q), r |-> r]
    ELSE BigDivNext(n, d, i - 1, q, BigNorm(<<n[i]>> \o r))

\* The quotient q and the remainder r of n by d, for d > 0.
BigDivMod(n, d) ==
    IF Len(d) = 1 THEN BigDivSmallFrom(n, d[1], Len(n), <<>>, 0)
    ELSE BigDivFrom(n, d, Len(n), <<>>, <<>>)

\* The integer square root of n > 0 by Newton's iteration from x, an
\* integer not below the root: the iteration descends to the root.
RECURSIVE BigSqrtFrom(_, _)
BigSqrtNext(n, x, y) == IF BigCmp(y, x) >= 0 THEN x ELSE BigSqrtFrom(n, y)

BigSqrtFrom(n, x) ==
    BigSqrtNext(n, x, BigShr(BigAdd(x, BigDivMod(n, x).q, 0), 1))

BigSqrtOf(n, root) == [q |-> root, r |-> BigSub(n, BigMul(root, root))]

\* The integer square root q of n and the remainder r = n - q * q.
BigSqrtRem(n) ==
    IF n = <<>> THEN [q |-> <<>>, r |-> <<>>]
    ELSE BigSqrtOf(n, BigSqrtFrom(n, BigShl(<<1>>, (BigBitLen(n) + 1) \div 2)))

FlZero == [s |-> 0, m |-> <<>>, e |-> 0]

\* float(i) of an integer i.
FlOfInt(i) ==
    IF i = 0 THEN FlZero
    ELSE [s |-> IF i > 0 THEN 1 ELSE -1,
          m |-> BigOfNat(IF i > 0 THEN i ELSE -i), e |-> 0]

\* The double nearest to s * x * 2^e, for an x of which q is the integer
\* part and of 53 + t bits, t >= 1; sticky tells that x has a fraction.
FlCut(s, q, e, sticky, t) ==
    [s |-> s,
     m |-> IF /\ BigBit(q, t - 1) = 1
              /\ sticky \/ ~BigLowZero(q, t - 1) \/ BigBit(q, t) = 1
           THEN BigAdd(BigShr(q, t), <<>>, 1) ELSE BigShr(q, t),
     e |-> e + t]

\* The same for a q of any length; a q of at most 53 bits is exact.
FlNearest(s, q, e, sticky) ==
    IF BigBitLen(q) <= 53 THEN [s |-> s, m |-> q, e |-> e]
    ELSE FlCut(s, q, e, sticky, BigBitLen(q) - 53)

FlQuotOf(s, dm, e) == FlNearest(s, dm.q, e, dm.r # <<>>)

FlQuotShifted(s, N, D, e, sh) ==
    FlQuotOf(s, BigDivMod(BigShl(N, sh), D), e - sh)

\* The double nearest to s * (N / D) * 2^e, for N > 0 and D > 0: the
\* quotient is taken to 55 bits or more.
FlQuot(s, N, D, e) ==
    FlQuotShifted(s, N, D, e,
                  IF 55 - BigBitLen(N) + BigBitLen(D) > 0
                  THEN 55 - BigBitLen(N) + BigBitLen(D) ELSE 0)

\* a / b, for b # 0.
FlDiv(a, b) ==
    IF a.s = 0 THEN FlZero ELSE FlQuot(a.s * b.s, a.m, b.m, a.e - b.e)

\* a * b.
FlMul(a, b) ==
    IF a.s = 0 \/ b.s = 0 THEN FlZero
    ELSE FlNearest(a.s * b.s, BigMul(a.m, b.m), a.e + b.e, FALSE)

FlNeg(a) == [a EXCEPT !.s = -a.s]

\* The double nearest to s * M * 2^e, zero for M = 0.
FlSum(s, M, e) ==
    IF M = <<>> THEN FlZero ELSE FlNearest(s, M, e, FALSE)

\* sa * A + sb * B times 2^e, c being the sign of A - B.
FlAddCompared(sa, A, sb, B, e, c) ==
    FlSum(IF c >= 0 THEN sa ELSE sb,
          IF sa = sb THEN BigAdd(A, B, 0)
          ELSE IF c >= 0 THEN BigSub(A, B) ELSE BigSub(B, A),
          e)

FlAddAligned(sa, A, sb, B, e) ==
    FlAddCompared(sa, A, sb, B, e, BigCmp(A, B))

\* The mantissa of a at the exponent e <= a.e.
FlAt(a, e) == BigShl(a.m, a.e - e)

FlAddAt(a, b, e) == FlAddAligned(a.s, FlAt(a, e), b.s, FlAt(b, e), e)

\* a + b.
FlAdd(a, b) ==
    IF a.s = 0 THEN b
    ELSE IF b.s = 0 THEN a
    ELSE FlAddAt(a, b, IF a.e <= b.e THEN a.e ELSE b.e)

\* a - b.
FlSub(a, b) == FlAdd(a, FlNeg(b))

\* The sign of |a| - |b|, for a # 0 and b # 0.
FlCmpAt(a, b, e) == BigCmp(FlAt(a, e), FlAt(b, e))

\* a < b.
FlLess(a, b) ==
    IF a.s # b.s THEN a.s < b.s
    ELSE IF a.s = 0 THEN FALSE
    ELSE a.s * FlCmpAt(a, b, IF a.e <= b.e THEN a.e ELSE b.e) < 0

FlRootOf(dm, sr, e) ==
    FlNearest(1, sr.q, e, dm.r # <<>> \/ sr.r # <<>>)

FlRootDivided(dm, e) == FlRootOf(dm, BigSqrtRem(dm.q), e)

FlRootShifted(N, D, e, k) ==
    FlRootDivided(BigDivMod(BigShl(N, k), D), (e - k) \div 2)

FlRootEven(N, D, e, k) ==
    FlRootShifted(N, D, e, IF k <= 0 THEN 0 ELSE k + (k % 2))

\* The double nearest to sqrt((N / D) * 2^e), for D > 0: the root is taken
\* of the quotient shifted to 110 bits or more by an even number of bits.
FlRoot(N, D, e) ==
    IF N = <<>> THEN FlZero
    ELSE IF e % 2 = 1
    THEN FlRootEven(BigMulSmall(N, 2, 0), D, e - 1,
                    109 - BigBitLen(N) + BigBitLen(D))
    ELSE FlRootEven(N, D, e, 110 - BigBitLen(N) + BigBitLen(D))

\* math.sqrt(a) and np.sqrt(a), for a >= 0.
FlSqrt(a) == FlRoot(a.m, <<1>>, a.e)

\* The integer nearest to n / 2^k for k >= 1, a tie to the even one.
BigRoundShr(n, k) ==
    BigToNat(BigShr(n, k))
    + (IF /\ BigBit(n, k - 1) = 1
          /\ ~BigLowZero(n, k - 1) \/ BigBit(n, k) = 1
       THEN 1 ELSE 0)

\* round(a, d) for d in 0..2, in units of 10^-d: the multiple of 10^-d
\* nearest to the exact value of the double, a tie to the even one.
FlRound(a, d) ==
    IF a.s = 0 THEN 0
    ELSE IF a.e >= 0
    THEN a.s * BigToNat(BigShl(BigMulSmall(a.m, 10 ^ d, 0), a.e))
    ELSE a.s * BigRoundShr(BigMulSmall(a.m, 10 ^ d, 0), -a.e)

\* int(a): the integer part of the double, the fraction dropped.
FlTrunc(a) ==
    IF a.s = 0 THEN 0
    ELSE IF a.e >= 0 THEN a.s * BigToNat(BigShl(a.m, a.e))
    ELSE a.s * BigToNat(BigShr(a.m, -a.e))

\* ------------------------------------------------------------------------
\* Raw values and numeric coercion
\* ------------------------------------------------------------------------
Num(n) == [k |-> "num", v |-> n]
Bad == [k |-> "bad", v |-> 0]
None == [k |-> "none", v |-> 0]
NaN == [k |-> "nan", v |-> 0]
Inf == [k |-> "inf", v |-> 0]

\* safe_int of _process_latest_report: int(float(value)), with ValueError and
\* TypeError turned into the default 0. int(float("inf")) raises
\* OverflowError, which the handler does not catch.
safe_int(value) ==
    IF value.k = "num" THEN [exc |-> FALSE, v |-> value.v]
    ELSE IF value.k \in {"bad", "none", "nan"} THEN [exc |-> FALSE, v |-> 0]
    ELSE [exc |-> TRUE, v |-> 0]

\* part / total * 100, for total # 0.
PctDouble(part, total) ==
    FlMul(FlDiv(FlOfInt(part), FlOfInt(total)), FlOfInt(100))

\* The largest count for which the percentages are computed on integers.
PctExact == 1000000

\* round(part / total * 100, 1) in tenths, for total > 0. round() rounds
\* the double the quotient and the product leave, which for a percentage
\* halfway between two tenths (28.75) lies above it, below it or on it.
\* Any other percentage of counts up to PctExact is further from the
\* halfway values than the double is from it, and its nearest tenth is
\* computed on the integers.
RoundPct(part, total) ==
    IF /\ -PctExact <= part /\ part <= PctExact /\ total <= PctExact
       /\ (2000 * part) % (2 * total) # total
    THEN (2000 * part + total) \div (2 * total)
    ELSE FlRound(PctDouble(part, total), 1)

\* Mutant: the percentage is cut to one decimal instead of rounded.
PctOfTotal_truncated(part, total) ==
    IF total > 0 THEN (part * 1000) \div total ELSE 0

\* The "% of OI" lines of _process_latest_report.
PctOfTotal(part, total) ==
    IF total > 0 THEN RoundPct(part, total) ELSE 0

\* The fields of a row that _process_latest_report coerces.
LatestFields ==
    {"noncomm_positions_long_all", "noncomm_positions_short_all",
     "comm_positions_long_all", "comm_positions_short_all",
     "nonrept_positions_long_all", "nonrept_positions_short_all",
     "open_interest_all",
     "change_in_noncomm_long_all", "change_in_noncomm_short_all",
     "change_in_comm_long_all", "change_in_comm_short_all",
     "change_in_nonrept_long_all", "change_in_nonrept_short_all",
     "change_in_open_interest_all"}

\* Report date of a snapshot: the sentinel, the "%B %d, %Y" form of a date
\* that parses as "%Y-%m-%d", or the raw string when it does not parse.
FormatDate(d) ==
    IF d >= 1 THEN [d |-> d, kind |-> "formatted"] ELSE [d |-> d, kind |-> "raw"]

NoDataAvailable == [d |-> 0, kind |-> "No Data Available"]

_get_empty_report ==
    [report_date |-> NoDataAvailable,
     open_interest |-> 0, oi_change |-> 0,
     non_commercial_long |-> 0, non_commercial_short |-> 0,
     non_commercial_net |-> 0, non_commercial_change |-> 0,
     non_commercial_pct |-> 0,
     commercial_long |-> 0, commercial_short |-> 0,
     commercial_net |-> 0, commercial_change |-> 0,
     commercial_pct |-> 0,
     non_reportable_long |-> 0, non_reportable_short |-> 0,
     non_reportable_net |-> 0, non_reportable_change |-> 0,
     non_reportable_pct |-> 0]

\* Mutant: the net position adds the short side.
NetPosition_sum(long, short) == long + short

\* The "Calculate net positions" lines of _process_latest_report.
NetPosition(long, short) == long - short

\* The positions of the three trader groups of a row, long plus short.
GroupPositions(row) ==
    LET g(name) == safe_int(row.f[name]).v
    IN  <<g("noncomm_positions_long_all") + g("noncomm_positions_short_all"),
          g("comm_positions_long_all") + g("comm_positions_short_all"),
          g("nonrept_positions_long_all") + g("nonrept_positions_short_all")>>

\* The "% of OI" values of the three trader groups: each over
\* total_positions, the sum of the six position fields.
PctOfOI(groups) ==
    [i \in DOMAIN groups |->
        PctOfTotal(groups[i], groups[1] + groups[2] + groups[3])]

\* The dict _process_latest_report returns, pct holding its three "% of OI"
\* values.
ReportOf(row, pct) ==
    LET g(name) == safe_int(row.f[name]).v
        nc_long == g("noncomm_positions_long_all")
        nc_short == g("noncomm_positions_short_all")
        comm_long == g("comm_positions_long_all")
        comm_short == g("comm_positions_short_all")
        nr_long == g("nonrept_positions_long_all")
        nr_short == g("nonrept_positions_short_all")
    IN  [report_date |-> FormatDate(row.report_date_as_yyyy_mm_dd),
         open_interest |-> g("open_interest_all"),
         oi_change |-> g("change_in_open_interest_all"),
         non_commercial_long |-> nc_long,
         non_commercial_short |-> nc_short,
         non_commercial_net |-> NetPosition(nc_long, nc_short),
         non_commercial_change |->
             g("change_in_noncomm_long_all") - g("change_in_noncomm_short_all"),
         non_commercial_pct |-> pct[1],
         commercial_long |-> comm_long,
         commercial_short |-> comm_short,
         commercial_net |-> NetPosition(comm_long, comm_short),
         commercial_change |->
             g("change_in_comm_long_all") - g("change_in_comm_short_all"),
         commercial_pct |-> pct[2],
         non_reportable_long |-> nr_long,
         non_reportable_short |-> nr_short,
         non_reportable_net |-> NetPosition(nr_long, nr_short),
         non_reportable_change |->
             g("change_in_nonrept_long_all") - g("change_in_nonrept_short_all"),
         non_reportable_pct |-> pct[3]]

\* The snapshot _process_latest_report builds from a row, when no coercion
\* raises. row.f maps a field name to its raw value.
ProcessedReport(row) == ReportOf(row, PctOfOI(GroupPositions(row)))

\* _process_latest_report: raises when a coercion raises, else the snapshot.
_process_latest_report(row) ==
    IF \E name \in LatestFields : safe_int(row.f[name]).exc
    THEN [exc |-> TRUE, report |-> _get_empty_report]
    ELSE [exc |-> FALSE, report |-> ProcessedReport(row)]

\* ------------------------------------------------------------------------
\* Registries (the entries of the symbols the model uses)
\* ------------------------------------------------------------------------
DATASET_ID == "6dca-aqww"

DATASET_IDS ==
    [legacy |-> "6dca-aqww", disaggregated |-> "72hh-3qpy", tff |-> "gpe5-46if"]

\* The contract names of each symbol in the Legacy report.
SYMBOL_TO_CONTRACT ==
    "CL" :> <<"CRUDE OIL, LIGHT SWEET - NEW YORK MERCANTILE EXCHANGE",
              "WTI-PHYSICAL - NEW YORK MERCANTILE EXCHANGE">>
    @@ "NG" :> <<"NATURAL GAS - NEW YORK MERCANTILE EXCHANGE",
                 "NAT GAS NYME - NEW YORK MERCANTILE EXCHANGE">>
    @@ "RB" :> <<"GASOLINE BLENDSTOCK (RBOB) - NEW YORK MERCANTILE EXCHANGE",
                 "GASOLINE RBOB - NEW YORK MERCANTILE EXCHANGE">>
    @@ "HO" :> <<"NO. 2 HEATING OIL, N.Y. HARBOR - NEW YORK MERCANTILE EXCHANGE",
                 "#2 HEATING OIL- NY HARBOR-ULSD - NEW YORK MERCANTILE EXCHANGE",
                 "NY HARBOR ULSD - NEW YORK MERCANTILE EXCHANGE">>
    @@ "BZ" :> <<"BRENT CRUDE OIL LAST DAY - NEW YORK MERCANTILE EXCHANGE",
                 "BRENT LAST DAY - NEW YORK MERCANTILE EXCHANGE">>
    @@ "GC" :> <<"GOLD - COMMODITY EXCHANGE INC.">>
    @@ "SI" :> <<"SILVER - COMMODITY EXCHANGE INC.">>
    @@ "HG" :> <<"COPPER-GRADE #1 - COMMODITY EXCHANGE INC.">>
    @@ "PL" :> <<"PLATINUM - NEW YORK MERCANTILE EXCHANGE">>
    @@ "PA" :> <<"PALLADIUM - NEW YORK MERCANTILE EXCHANGE">>
    @@ "ZC" :> <<"CORN - CHICAGO BOARD OF TRADE">>
    @@ "ZS" :> <<"SOYBEANS - CHICAGO BOARD OF TRADE">>
    @@ "ZW" :> <<"WHEAT-SRW - CHICAGO BOARD OF TRADE">>
    @@ "ZM" :> <<"SOYBEAN MEAL - CHICAGO BOARD OF TRADE">>
    @@ "ZL" :> <<"SOYBEAN OIL - CHICAGO BOARD OF TRADE">>
    @@ "ZO" :> <<"OATS - CHICAGO BOARD OF TRADE">>
    @@ "KE" :> <<"WHEAT-HRW - CHICAGO BOARD OF TRADE">>
    @@ "ZR" :> <<"ROUGH RICE - CHICAGO BOARD OF TRADE">>
    @@ "CT" :> <<"COTTON NO. 2 - ICE FUTURES U.S.">>
    @@ "KC" :> <<"COFFEE C - ICE FUTURES U.S.">>
    @@ "SB" :> <<"SUGAR NO. 11 - ICE FUTURES U.S.">>
    @@ "CC" :> <<"COCOA - ICE FUTURES U.S.">>
    @@ "OJ" :> <<"FRZN CONCENTRATED ORANGE JUICE - ICE FUTURES U.S.">>
    @@ "LE" :> <<"LIVE CATTLE - CHICAGO MERCANTILE EXCHANGE">>
    @@ "HE" :> <<"LEAN HOGS - CHICAGO MERCANTILE EXCHANGE">>
    @@ "GF" :> <<"FEEDER CATTLE - CHICAGO MERCANTILE EXCHANGE">>
    @@ "ES" :> <<"E-MINI S&P 500 - CHICAGO MERCANTILE EXCHANGE">>
    @@ "NQ" :> <<"NASDAQ MINI - CHICAGO MERCANTILE EXCHANGE">>
    @@ "YM" :> <<"DOW JONES INDUSTRIAL AVG- x $5 - CHICAGO BOARD OF TRADE">>
    @@ "RTY" :> <<"RUSSELL E-MINI - CHICAGO MERCANTILE EXCHANGE">>
    @@ "VX" :> <<"VIX FUTURES - CBOE FUTURES EXCHANGE">>
    @@ "SP" :> <<"S&P 500 STOCK INDEX - CHICAGO MERCANTILE EXCHANGE">>
    @@ "NKD" :> <<"NIKKEI STOCK AVERAGE - CHICAGO MERCANTILE EXCHANGE">>
    @@ "6E" :> <<"EURO FX - CHICAGO MERCANTILE EXCHANGE">>
    @@ "6J" :> <<"JAPANESE YEN - CHICAGO MERCANTILE EXCHANGE",
                 "JPN YEN - CHICAGO MERCANTILE EXCHANGE">>
    @@ "6B" :> <<"BRITISH POUND STERLING - CHICAGO MERCANTILE EXCHANGE",
                 "BRITISH POUND - CHICAGO MERCANTILE EXCHANGE">>
    @@ "6A" :> <<"AUSTRALIAN DOLLAR - CHICAGO MERCANTILE EXCHANGE",
                 "AUD DOLLAR - CHICAGO MERCANTILE EXCHANGE">>
    @@ "6C" :> <<"CANADIAN DOLLAR - CHICAGO MERCANTILE EXCHANGE",
                 "CAD DOLLAR - CHICAGO MERCANTILE EXCHANGE">>
    @@ "6S" :> <<"SWISS FRANC - CHICAGO MERCANTILE EXCHANGE",
                 "CHF FRANC - CHICAGO MERCANTILE EXCHANGE">>
    @@ "6N" :> <<"NEW ZEALAND DOLLAR - CHICAGO MERCANTILE EXCHANGE",
                 "NZ DOLLAR - CHICAGO MERCANTILE EXCHANGE">>
    @@ "6M" :> <<"MEXICAN PESO - CHICAGO MERCANTILE EXCHANGE",
                 "MXN PESO - CHICAGO MERCANTILE EXCHANGE">>
    @@ "DX" :> <<"U.S. DOLLAR INDEX - ICE FUTURES U.S.",
                 "USD INDEX - ICE FUTURES U.S.">>
    @@ "BTC" :> <<"BITCOIN - CHICAGO MERCANTILE EXCHANGE">>
    @@ "ZB" :> <<"U.S. TREASURY BONDS - CHICAGO BOARD OF TRADE">>
    @@ "ZN" :> <<"10-YEAR U.S. TREASURY NOTES - CHICAGO BOARD OF TRADE">>
    @@ "ZF" :> <<"5-YEAR U.S. TREASURY NOTES - CHICAGO BOARD OF TRADE">>
    @@ "ZT" :> <<"2-YEAR U.S. TREASURY NOTES - CHICAGO BOARD OF TRADE">>
    @@ "UB" :> <<"ULTRA U.S. TREASURY BONDS - CHICAGO BOARD OF TRADE">>
    @@ "TN" :> <<"ULTRA 10-YEAR U.S. TREASURY NOTES - CHICAGO BOARD OF TRADE">>
    @@ "ED" :> <<"EURODOLLAR - CHICAGO MERCANTILE EXCHANGE">>
    @@ "SR3" :> <<"3-MONTH SOFR - CHICAGO MERCANTILE EXCHANGE">>

\* The contract names of the financial symbols in the TFF report.
SYMBOL_TO_CONTRACT_TFF ==
    "ES" :> <<"E-MINI S&P 500 STOCK INDEX - CHICAGO MERCANTILE EXCHANGE",
              "E-MINI S&P 500 - CHICAGO MERCANTILE EXCHANGE">>
    @@ "NQ" :> <<"NASDAQ-100 STOCK INDEX (MINI) - CHICAGO MERCANTILE EXCHANGE",
                 "NASDAQ MINI - CHICAGO MERCANTILE EXCHANGE">>
    @@ "YM" :> <<"DJIA x $5 - CHICAGO BOARD OF TRADE",
                 "DOW JONES INDUSTRIAL AVG- x $5 - CHICAGO BOARD OF TRADE">>
    @@ "RTY" :> <<"RUSSELL 2000 MINI - CHICAGO MERCANTILE EXCHANGE",
                  "RUSSELL E-MINI - CHICAGO MERCANTILE EXCHANGE">>
    @@ "VX" :> <<"VIX FUTURES - CBOE FUTURES EXCHANGE">>
    @@ "NKD" :> <<"NIKKEI STOCK AVERAGE - CHICAGO MERCANTILE EXCHANGE">>
    @@ "SP" :> <<"S&P 500 STOCK INDEX - CHICAGO MERCANTILE EXCHANGE">>
    @@ "6E" :> <<"EURO FX - CHICAGO MERCANTILE EXCHANGE">>
    @@ "6J" :> <<"JAPANESE YEN - CHICAGO MERCANTILE EXCHANGE",
                 "JPN YEN - CHICAGO MERCANTILE EXCHANGE">>
    @@ "6B" :> <<"BRITISH POUND STERLING - CHICAGO MERCANTILE EXCHANGE",
                 "BRITISH POUND - CHICAGO MERCANTILE EXCHANGE">>
    @@ "6A" :> <<"AUSTRALIAN DOLLAR - CHICAGO MERCANTILE EXCHANGE",
                 "AUD DOLLAR - CHICAGO MERCANTILE EXCHANGE">>
    @@ "6C" :> <<"CANADIAN DOLLAR - CHICAGO MERCANTILE EXCHANGE",
                 "CAD DOLLAR - CHICAGO MERCANTILE EXCHANGE">>
    @@ "6S" :> <<"SWISS FRANC - CHICAGO MERCANTILE EXCHANGE",
                 "CHF FRANC - CHICAGO MERCANTILE EXCHANGE">>
    @@ "6N" :> <<"NEW ZEALAND DOLLAR - CHICAGO MERCANTILE EXCHANGE",
                 "NZ DOLLAR - CHICAGO MERCANTILE EXCHANGE">>
    @@ "6M" :> <<"MEXICAN PESO - CHICAGO MERCANTILE EXCHANGE",
                 "MXN PESO - CHICAGO MERCANTILE EXCHANGE">>
    @@ "DX" :> <<"U.S. DOLLAR INDEX - ICE FUTURES U.S.",
                 "USD INDEX - ICE FUTURES U.S.">>
    @@ "BTC" :> <<"BITCOIN - CHICAGO MERCANTILE EXCHANGE">>
    @@ "ZB" :> <<"UST BOND - CHICAGO BOARD OF TRADE",
                 "U.S. TREASURY BONDS - CHICAGO BOARD OF TRADE">>
    @@ "ZN" :> <<"10 YR UST NOTE - CHICAGO BOARD OF TRADE",
                 "10-YEAR U.S. TREASURY NOTES - CHICAGO BOARD OF TRADE">>
    @@ "ZF" :> <<"5 YR UST NOTE - CHICAGO BOARD OF TRADE",
                 "5-YEAR U.S. TREASURY NOTES - CHICAGO BOARD OF TRADE">>
    @@ "ZT" :> <<"2 YR UST NOTE - CHICAGO BOARD OF TRADE",
                 "2-YEAR U.S. TREASURY NOTES - CHICAGO BOARD OF TRADE">>
    @@ "UB" :> <<"ULTRA UST BOND - CHICAGO BOARD OF TRADE",
                 "ULTRA U.S. TREASURY BONDS - CHICAGO BOARD OF TRADE">>
    @@ "TN" :> <<"ULTRA 10 YR UST NOTE - CHICAGO BOARD OF TRADE",
                 "ULTRA 10-YEAR U.S. TREASURY NOTES - CHICAGO BOARD OF TRADE">>
    @@ "ED" :> <<"EURODOLLAR - CHICAGO MERCANTILE EXCHANGE">>
    @@ "SR3" :> <<"3M SOFR - CHICAGO MERCANTILE EXCHANGE",
                  "3-MONTH SOFR - CHICAGO MERCANTILE EXCHANGE">>

\* The contract names of the commodity symbols in the Disaggregated report.
SYMBOL_TO_CONTRACT_DISAGG ==
    "CL" :> <<"CRUDE OIL, LIGHT SWEET - NEW YORK MERCANTILE EXCHANGE",
              "WTI-PHYSICAL - NEW YORK MERCANTILE EXCHANGE">>
    @@ "NG" :> <<"NATURAL GAS - NEW YORK MERCANTILE EXCHANGE",
                 "NAT GAS NYME - NEW YORK MERCANTILE EXCHANGE">>
    @@ "RB" :> <<"GASOLINE BLENDSTOCK (RBOB) - NEW YORK MERCANTILE EXCHANGE",
                 "GASOLINE RBOB - NEW YORK MERCANTILE EXCHANGE">>
    @@ "HO" :> <<"NO. 2 HEATING OIL, N.Y. HARBOR - NEW YORK MERCANTILE EXCHANGE",
                 "#2 HEATING OIL- NY HARBOR-ULSD - NEW YORK MERCANTILE EXCHANGE",
                 "NY HARBOR ULSD - NEW YORK MERCANTILE EXCHANGE">>
    @@ "BZ" :> <<"BRENT CRUDE OIL LAST DAY - NEW YORK MERCANTILE EXCHANGE",
                 "BRENT LAST DAY - NEW YORK MERCANTILE EXCHANGE">>
    @@ "GC" :> <<"GOLD - COMMODITY EXCHANGE INC.">>
    @@ "SI" :> <<"SILVER - COMMODITY EXCHANGE INC.">>
    @@ "HG" :> <<"COPPER-GRADE #1 - COMMODITY EXCHANGE INC.",
                 "COPPER- #1 - COMMODITY EXCHANGE INC.">>
    @@ "PL" :> <<"PLATINUM - NEW YORK MERCANTILE EXCHANGE">>
    @@ "PA" :> <<"PALLADIUM - NEW YORK MERCANTILE EXCHANGE">>
    @@ "ZC" :> <<"CORN - CHICAGO BOARD OF TRADE">>
    @@ "ZS" :> <<"SOYBEANS - CHICAGO BOARD OF TRADE">>
    @@ "ZW" :> <<"WHEAT-SRW - CHICAGO BOARD OF TRADE",
                 "WHEAT - CHICAGO BOARD OF TRADE">>
    @@ "ZM" :> <<"SOYBEAN MEAL - CHICAGO BOARD OF TRADE">>
    @@ "ZL" :> <<"SOYBEAN OIL - CHICAGO BOARD OF TRADE">>
    @@ "ZO" :> <<"OATS - CHICAGO BOARD OF TRADE">>
    @@ "KE" :> <<"WHEAT-HRW - CHICAGO BOARD OF TRADE",
                 "WHEAT-HRW - KANSAS CITY BOARD OF TRADE">>
    @@ "ZR" :> <<"ROUGH RICE - CHICAGO BOARD OF TRADE">>
    @@ "CT" :> <<"COTTON NO. 2 - ICE FUTURES U.S.">>
    @@ "KC" :> <<"COFFEE C - ICE FUTURES U.S.">>
    @@ "SB" :> <<"SUGAR NO. 11 - ICE FUTURES U.S.">>
    @@ "CC" :> <<"COCOA - ICE FUTURES U.S.">>
    @@ "OJ" :> <<"FRZN CONCENTRATED ORANGE JUICE - ICE FUTURES U.S.">>
    @@ "LE" :> <<"LIVE CATTLE - CHICAGO MERCANTILE EXCHANGE">>
    @@ "HE" :> <<"LEAN HOGS - CHICAGO MERCANTILE EXCHANGE">>
    @@ "GF" :> <<"FEEDER CATTLE - CHICAGO MERCANTILE EXCHANGE">>

\* dict.get(symbol, []): a symbol string is a key only as a whole.
RegistryGet(registry, symbol) ==
    IF Len(symbol) = 1 /\ symbol[1] \in DOMAIN registry
    THEN registry[symbol[1]] ELSE <<>>

\* The symbol strings the model calls the fetcher with: two supported
\* symbols, the strings "./CL" and "sub/../CL", and an unknown symbol.
SymCL == <<"CL">>
SymES == <<"ES">>
SymDotCL == <<".", "CL">>
SymSubCL == <<"sub", "..", "CL">>
SymXX == <<"XX">>
Symbols == {SymCL, SymES, SymDotCL, SymSubCL, SymXX}

\* ------------------------------------------------------------------------
\* Cache store
\* ------------------------------------------------------------------------
max_age_hours == 24

\* The cache directory of a COTDataFetcher() and the directory the program
\* runs in, as the components of their paths.
cache_dir == <<".cot_cache">>
WorkingDirectory == <<"srv", "app">>

\* The directories that exist: the program creates the cache directory
\* (os.makedirs(cache_dir, exist_ok=True)) and no other, so these are the
\* cache directory, the working directory and the directories above them,
\* each as its components from the root.
ExistingDirectories ==
    {SubSeq(WorkingDirectory \o cache_dir, 1, n) :
        n \in 0..Len(WorkingDirectory \o cache_dir)}

\* What a path leads to when one of its directories does not exist. No
\* directory has an empty component.
NoDirectory == <<"">>

\* The directory that the directory components dirs lead to from the
\* directory at, both as components from the root: "." and an empty
\* component stay, ".." goes to the parent (the root is its own parent),
\* any other component goes to the directory of that name if it exists.
\* Once a directory is missing, so is all that follows: "sub/.." leads
\* nowhere when there is no "sub".
RECURSIVE ResolveDirs(_, _)
ResolveDirs(at, dirs) ==
    IF dirs = <<>> \/ at = NoDirectory THEN at
    ELSE ResolveDirs(IF Head(dirs) \in {".", ""} THEN at
                     ELSE IF Head(dirs) = ".."
                     THEN SubSeq(at, 1, Len(at) - 1)
                     ELSE IF Append(at, Head(dirs)) \in ExistingDirectories
                     THEN Append(at, Head(dirs))
                     ELSE NoDirectory,
                     Tail(dirs))

\* The path that names no file: os.path.exists is false for it and open()
\* fails.
NoFile == <<>>

\* The file in directory dir with the stem last, as the cache names it: by
\* its stem when it lies in the cache directory, and otherwise by its path
\* from the root after an empty first component.
FileIn(dir, last) ==
    IF dir = NoDirectory THEN NoFile
    ELSE IF dir = WorkingDirectory \o cache_dir THEN <<last>>
    ELSE <<"">> \o dir \o <<last>>

\* os.path.join(cache_dir, f"{symbol}.json"), as the file it names. A symbol
\* string is held as its "/"-separated components; ".json" is appended to
\* the string before the path is read, so the last component is the stem
\* of the file name and is kept whatever it is ("." names the file
\* "..json"). The components before it name directories, from the cache
\* directory on, or from the root on when the first component is empty:
\* os.path.join drops cache_dir before an absolute path. The empty string
\* has the one component "".
_get_cache_path(symbol) ==
    IF symbol = <<>> THEN <<"">>
    ELSE FileIn(ResolveDirs(IF Len(symbol) > 1 /\ symbol[1] = "" THEN <<>>
                            ELSE WorkingDirectory \o cache_dir,
                            SubSeq(symbol, 1, Len(symbol) - 1)),
                symbol[Len(symbol)])

\* The paths the model keeps cache entries for; the entry of NoFile is
\* always absent.
CacheFiles == {_get_cache_path(s) : s \in Symbols}

Absent == [state |-> "absent", snap |-> _get_empty_report, mtime |-> 0]

\* Mutant: the age test admits an entry that is exactly max_age_hours old.
_is_cache_valid_inclusive(c, t, symbol) ==
    LET path == _get_cache_path(symbol)
    IN  /\ path # NoFile
        /\ c[path].state # "absent"
        /\ t - c[path].mtime <= max_age_hours

\* _is_cache_valid: the file exists and its age is below max_age_hours.
_is_cache_valid(c, t, symbol) ==
    LET path == _get_cache_path(symbol)
    IN  /\ path # NoFile
        /\ c[path].state # "absent"
        /\ t - c[path].mtime < max_age_hours

\* Mutant: the load always fails.
_load_from_cache_none(c, symbol) ==
    [none |-> TRUE, report |-> _get_empty_report]

\* _load_from_cache: the parsed content, or None when the file does not
\* hold a complete JSON document.
_load_from_cache(c, symbol) ==
    LET path == _get_cache_path(symbol)
    IN  IF path # NoFile /\ c[path].state = "ok"
        THEN [none |-> FALSE, report |-> c[path].snap]
        ELSE [none |-> TRUE, report |-> _get_empty_report]

\* Outcomes of the file write of _save_to_cache: it succeeds, open() fails
\* (the file is untouched), or the write fails after open() has truncated the
\* file (a partial document with a new modification time).
SaveOutcomes == {"ok", "open_fails", "dump_fails"}

\* Mutant: the snapshot is never written.
_save_to_cache_skip(c, t, symbol, report, outcome) == c

\* Mutant: a write that fails while dumping leaves a readable entry that
\* holds the empty snapshot.
_save_to_cache_partial_readable(c, t, symbol, report, outcome) ==
    LET path == _get_cache_path(symbol)
    IN  IF outcome = "open_fails" \/ path = NoFile THEN c
        ELSE [c EXCEPT ![path] =
                 [state |-> "ok",
                  snap |-> IF outcome = "ok" THEN report
                           ELSE _get_empty_report,
                  mtime |-> t]]

\* _save_to_cache: every failure is swallowed. open() fails on a path
\* that names no file, whatever the outcome drawn for the write.
_save_to_cache(c, t, symbol, report, outcome) ==
    LET path == _get_cache_path(symbol)
    IN  IF path = NoFile THEN c
        ELSE IF outcome = "ok"
        THEN [c EXCEPT ![path] = [state |-> "ok", snap |-> report, mtime |-> t]]
        ELSE IF outcome = "dump_fails"
        THEN [c EXCEPT ![path] =
                 [state |-> "corrupt", snap |-> _get_empty_report, mtime |-> t]]
        ELSE c

\* ------------------------------------------------------------------------
\* fetch_latest_report
\* ------------------------------------------------------------------------
Failure == [k |-> "fail", rows |-> <<>>]
Rows(rs) == [k |-> "rows", rows |-> rs]

RECURSIVE Concat(_)
Concat(ss) == IF ss = <<>> THEN <<>> ELSE Head(ss) \o Concat(Tail(ss))

\* Mutant: the row of the last contract name that answered.
MostRecent_last(all_results) == all_results[Len(all_results)]

\* max(all_results, key=report date): the first row that has the largest date.
MostRecent(all_results) ==
    LET top == CHOOSE d \in {all_results[i].report_date_as_yyyy_mm_dd :
                                 i \in DOMAIN all_results} :
                   \A i \in DOMAIN all_results :
                       all_results[i].report_date_as_yyyy_mm_dd <= d
        first == CHOOSE i \in DOMAIN all_results :
                     /\ all_results[i].report_date_as_yyyy_mm_dd = top
                     /\ \A j \in 1..(i - 1) :
                            all_results[j].report_date_as_yyyy_mm_dd # top
    IN  all_results[first]

LatestQuery(name) ==
    [name |-> name, dataset |-> DATASET_ID, limit |-> 1, offset |-> 0,
     order |-> "DESC"]

\* The queries one call of fetch_latest_report issues on a cache miss: one
\* per contract name in order, up to and including the first that fails.
\* resp holds the responses of the queries issued.
LatestQueries(contract_names, resp) ==
    [i \in 1..Len(resp) |-> LatestQuery(contract_names[i])]

\* The body of the try block of fetch_latest_report.
LatestTry(c, t, symbol, contract_names, resp, outcome) ==
    IF \E i \in DOMAIN resp : resp[i].k = "fail"
    THEN [exc |-> TRUE, report |-> _get_empty_report, cache |-> c,
          saved |-> FALSE]
    ELSE LET all_results == Concat([i \in DOMAIN resp |-> resp[i].rows])
         IN  IF all_results = <<>>
             THEN [exc |-> FALSE, report |-> _get_empty_report, cache |-> c,
                   saved |-> FALSE]
             ELSE LET p == _process_latest_report(MostRecent(all_results))
                  IN  IF p.exc
                      THEN [exc |-> TRUE, report |-> _get_empty_report,
                            cache |-> c, saved |-> FALSE]
                      ELSE [exc |-> FALSE, report |-> p.report,
                            cache |-> _save_to_cache(c, t, symbol, p.report,
                                                     outcome),
                            saved |-> TRUE]

\* Mutant: the failure of the try block reaches the caller.
LatestExcept_reraise(r) == [exc |-> r.exc, report |-> r.report]

\* The except clause of fetch_latest_report: a failure of the try block r
\* becomes the empty snapshot.
LatestExcept(r) ==
    IF r.exc THEN [exc |-> FALSE, report |-> _get_empty_report]
    ELSE [exc |-> FALSE, report |-> r.report]

\* TRUE when the call answers from the cache.
LatestCacheHit(c, t, symbol) ==
    _is_cache_valid(c, t, symbol) /\ ~_load_from_cache(c, symbol).none

\* TRUE when the call reaches the remote source.
LatestQueriesRemote(c, t, symbol) ==
    /\ ~LatestCacheHit(c, t, symbol)
    /\ RegistryGet(SYMBOL_TO_CONTRACT, symbol) # <<>>

\* fetch_latest_report(symbol) in cache state c at time t, the remote source
\* answering the queries with resp and the file system answering a cache
\* write with outcome. Yields whether the call raises, the snapshot returned,
\* the cache afterwards, the queries issued and whether _save_to_cache ran.
fetch_latest_report(c, t, symbol, resp, outcome) ==
    LET contract_names == RegistryGet(SYMBOL_TO_CONTRACT, symbol)
    IN  IF LatestCacheHit(c, t, symbol)
        THEN [exc |-> FALSE, report |-> _load_from_cache(c, symbol).report,
              cache |-> c, queries |-> <<>>, wrote |-> FALSE]
        ELSE IF contract_names = <<>>
        THEN [exc |-> FALSE, report |-> _get_empty_report,
              cache |-> c, queries |-> <<>>, wrote |-> FALSE]
        ELSE LET r == LatestTry(c, t, symbol, contract_names, resp, outcome)
             IN  [exc |-> LatestExcept(r).exc,
                  report |-> LatestExcept(r).report,
                  cache |-> r.cache,
                  queries |-> LatestQueries(contract_names, resp),
                  wrote |-> r.saved]

\* ------------------------------------------------------------------------
\* fetch_historical_data
\* ------------------------------------------------------------------------
\* Rows per page request (batch_size = 50000 in the source, scaled down so
\* that a contract name with a few rows spans several pages).
batch_size == 2

REPORT_FIELD_MAPPINGS ==
    [legacy |->
        [trader1 |-> <<"noncomm_positions_long_all", "noncomm_positions_short_all">>,
         trader2 |-> <<"comm_positions_long_all", "comm_positions_short_all">>,
         trader3 |-> <<"nonrept_positions_long_all", "nonrept_positions_short_all">>,
         trader1_label |-> "non_commercial",
         trader2_label |-> "commercial",
         trader3_label |-> "non_reportable"],
     disaggregated |->
        [trader1 |-> <<"prod_merc_positions_long", "prod_merc_positions_short">>,
         trader2 |-> <<"swap_positions_long_all", "swap__positions_short_all">>,
         trader3 |-> <<"m_money_positions_long_all", "m_money_positions_short_all">>,
         trader4 |-> <<"other_rept_positions_long", "other_rept_positions_short">>,
         trader1_label |-> "producer_merchant",
         trader2_label |-> "swap_dealer",
         trader3_label |-> "managed_money",
         trader4_label |-> "other_reportable"],
     tff |->
        [trader1 |-> <<"dealer_positions_long_all", "dealer_positions_short_all">>,
         trader2 |-> <<"asset_mgr_positions_long", "asset_mgr_positions_short">>,
         trader3 |-> <<"lev_money_positions_long", "lev_money_positions_short">>,
         trader4 |-> <<"other_rept_positions_long", "other_rept_positions_short">>,
         trader1_label |-> "dealer",
         trader2_label |-> "asset_manager",
         trader3_label |-> "leveraged_funds",
         trader4_label |-> "other_reportable"]]

\* dict.get(report_type, default) on a registry keyed by report type.
ByReportType(registry, report_type) ==
    IF report_type \in DOMAIN registry THEN registry[report_type]
    ELSE registry["legacy"]

\* Mutant: every report type reads the Legacy registry.
HistContractNames_legacy(symbol, report_type) ==
    RegistryGet(SYMBOL_TO_CONTRACT, symbol)

\* The contract name mapping fetch_historical_data uses for a report type.
HistContractNames(symbol, report_type) ==
    IF report_type = "tff" THEN RegistryGet(SYMBOL_TO_CONTRACT_TFF, symbol)
    ELSE IF report_type = "disaggregated"
    THEN RegistryGet(SYMBOL_TO_CONTRACT_DISAGG, symbol)
    ELSE RegistryGet(SYMBOL_TO_CONTRACT, symbol)

HistQuery(dataset_id, name, offset) ==
    [name |-> name, dataset |-> dataset_id, limit |-> batch_size,
     offset |-> offset, order |-> "ASC"]

Min(a, b) == IF a <= b THEN a ELSE b

\* Mutant: only the first page of a contract name is requested.
Paginate_once(src, offset, request) ==
    IF request = src.failAt
    THEN [exc |-> TRUE, rows |-> <<>>, offsets |-> <<offset>>]
    ELSE [exc |-> FALSE,
          rows |-> SubSeq(src.rows, offset + 1,
                          Min(offset + batch_size, Len(src.rows))),
          offsets |-> <<offset>>]

\* The while loop over the pages of one contract name. src is what the
\* remote source holds for the name (src.rows, in the order it serves them)
\* and the number of the request of this name that fails (src.failAt, 0 for
\* none). Yields whether a request raised, the rows collected and the
\* offsets requested.
RECURSIVE Paginate(_, _, _)
Paginate(src, offset, request) ==
    IF request = src.failAt
    THEN [exc |-> TRUE, rows |-> <<>>, offsets |-> <<offset>>]
    ELSE LET results == SubSeq(src.rows, offset + 1,
                               Min(offset + batch_size, Len(src.rows)))
         IN  IF results = <<>> \/ Len(results) < batch_size
             THEN [exc |-> FALSE, rows |-> results, offsets |-> <<offset>>]
             ELSE LET rest == Paginate(src, offset + batch_size, request + 1)
                  IN  [exc |-> rest.exc,
                       rows |-> results \o rest.rows,
                       offsets |-> <<offset>> \o rest.offsets]

\* The for loop over the contract names: stops at the first request that
\* raises. remote[i] is the source of the i-th name.
RECURSIVE CollectAll(_, _, _, _)
CollectAll(dataset_id, contract_names, remote, i) ==
    IF i > Len(contract_names)
    THEN [exc |-> FALSE, rows |-> <<>>, queries |-> <<>>]
    ELSE LET pg == Paginate(remote[i], 0, 1)
             qs == [j \in DOMAIN pg.offsets |->
                      HistQuery(dataset_id, contract_names[i], pg.offsets[j])]
         IN  IF pg.exc
             THEN [exc |-> TRUE, rows |-> pg.rows, queries |-> qs]
             ELSE LET rest == CollectAll(dataset_id, contract_names, remote, i + 1)
                  IN  [exc |-> rest.exc,
                       rows |-> pg.rows \o rest.rows,
                       queries |-> qs \o rest.queries]

\* safe_col(col_name) at one row of the combined frame df: pd.to_numeric with
\* errors='coerce' and fillna(0). A column no row has is a column of zeros; a
\* malformed, missing or "nan" value is 0; "inf" parses to infinity.
safe_col(df, row, col_name) ==
    IF \A i \in DOMAIN df : col_name \notin DOMAIN df[i].f
    THEN [fin |-> TRUE, v |-> 0]
    ELSE IF col_name \notin DOMAIN row.f THEN [fin |-> TRUE, v |-> 0]
    ELSE IF row.f[col_name].k = "num" THEN [fin |-> TRUE, v |-> row.f[col_name].v]
    ELSE IF row.f[col_name].k = "inf" THEN [fin |-> FALSE, v |-> 0]
    ELSE [fin |-> TRUE, v |-> 0]

\* long - short of two columns: not finite when either operand is not.
NetOf(long, short) ==
    IF long.fin /\ short.fin THEN [fin |-> TRUE, v |-> long.v - short.v]
    ELSE [fin |-> FALSE, v |-> 0]

\* The new columns of one row: its date and the net of each trader category.
NewCols(df, row, field_mapping) ==
    LET net(t) == NetOf(safe_col(df, row, field_mapping[t][1]),
                        safe_col(df, row, field_mapping[t][2]))
    IN  [date |-> row.report_date_as_yyyy_mm_dd,
         trader1_net |-> net("trader1"),
         trader2_net |-> net("trader2"),
         trader3_net |-> net("trader3"),
         trader4_net |-> IF "trader4" \in DOMAIN field_mapping
                         THEN net("trader4") ELSE [fin |-> TRUE, v |-> 0]]


\* Mutant: of the rows of one date the first is kept.
drop_duplicates_keep_first(df) ==
    LET kept[n \in 0..Len(df)] ==
            IF n = 0 THEN <<>>
            ELSE IF \E j \in 1..(n - 1) : df[j].date = df[n].date
            THEN kept[n - 1]
            ELSE Append(kept[n - 1], df[n])
    IN  kept[Len(df)]

\* df.drop_duplicates(subset=['date'], keep='last').
RECURSIVE drop_duplicates(_)
drop_duplicates(df) ==
    IF df = <<>> THEN <<>>
    ELSE IF \E j \in 2..Len(df) : df[j].date = df[1].date
    THEN drop_duplicates(Tail(df))
    ELSE <<df[1]>> \o drop_duplicates(Tail(df))

\* Insert a row into a frame sorted by date, after the rows of the same date.
RECURSIVE InsertByDate(_, _)
InsertByDate(row, sorted) ==
    IF sorted = <<>> THEN <<row>>
    ELSE IF row.date < sorted[1].date THEN <<row>> \o sorted
    ELSE <<sorted[1]>> \o InsertByDate(row, Tail(sorted))

\* df.sort_values('date').
RECURSIVE sort_values(_)
sort_values(df) ==
    IF df = <<>> THEN <<>>
    ELSE InsertByDate(df[Len(df)], sort_values(SubSeq(df, 1, Len(df) - 1)))

\* Mutant: the fourth label (default "other") is emitted for every schema.
PointNets_with_other(row, field_mapping) ==
    LET label4 == IF "trader4_label" \in DOMAIN field_mapping
                  THEN field_mapping["trader4_label"] ELSE "other"
        labels == {field_mapping["trader1_label"], field_mapping["trader2_label"],
                   field_mapping["trader3_label"], label4}
    IN  [l \in labels |->
            IF l = field_mapping["trader1_label"] THEN row.trader1_net.v
            ELSE IF l = field_mapping["trader2_label"] THEN row.trader2_net.v
            ELSE IF l = field_mapping["trader3_label"] THEN row.trader3_net.v
            ELSE row.trader4_net.v]

\* The net values one data point carries, keyed by the labels of the report
\* type; trader4 only when the mapping has it.
PointNets(row, field_mapping) ==
    LET labels == {field_mapping["trader1_label"], field_mapping["trader2_label"],
                   field_mapping["trader3_label"]}
                  \cup (IF "trader4" \in DOMAIN field_mapping
                        THEN {field_mapping["trader4_label"]} ELSE {})
    IN  [l \in labels |->
            IF l = field_mapping["trader1_label"] THEN row.trader1_net.v
            ELSE IF l = field_mapping["trader2_label"] THEN row.trader2_net.v
            ELSE IF l = field_mapping["trader3_label"] THEN row.trader3_net.v
            ELSE row.trader4_net.v]

\* int(row[...]) raises on a net that is not finite.
PointRaises(row, field_mapping) ==
    \/ ~row.trader1_net.fin
    \/ ~row.trader2_net.fin
    \/ ~row.trader3_net.fin
    \/ ("trader4" \in DOMAIN field_mapping /\ ~row.trader4_net.fin)

\* The chart format loop over the rows of the frame.
ChartData(df, field_mapping) ==
    [i \in DOMAIN df |->
        LET nets == PointNets(df[i], field_mapping)
        IN  [key \in {"date", "week"} \cup DOMAIN nets |->
                IF key = "date" THEN df[i].date
                ELSE IF key = "week" THEN i - 1
                ELSE nets[key]]]

\* The part of the try block after the rows have been collected.
HistProcess(rows, field_mapping) ==
    IF rows = <<>> THEN [exc |-> FALSE, series |-> <<>>]
    ELSE LET df == [i \in DOMAIN rows |-> NewCols(rows, rows[i], field_mapping)]
             sorted == sort_values(drop_duplicates(df))
         IN  IF \E i \in DOMAIN sorted : PointRaises(sorted[i], field_mapping)
             THEN [exc |-> TRUE, series |-> <<>>]
             ELSE [exc |-> FALSE, series |-> ChartData(sorted, field_mapping)]

\* Mutant: the rows collected before the failed request are still charted.
HistExcept_partial(got, out) ==
    IF out.exc THEN [exc |-> FALSE, series |-> <<>>]
    ELSE [exc |-> FALSE, series |-> out.series]

\* The try/except of fetch_historical_data: got is the outcome of the
\* collection loops, out that of processing the rows collected; a failure of
\* either becomes the empty sequence.
HistExcept(got, out) ==
    IF got.exc \/ out.exc THEN [exc |-> FALSE, series |-> <<>>]
    ELSE [exc |-> FALSE, series |-> out.series]

\* fetch_historical_data(symbol, report_type=report_type) against the remote
\* source remote. Yields whether the call raises, the series returned, the
\* queries issued and whether the try block failed.
fetch_historical_data(symbol, report_type, remote) ==
    LET contract_names == HistContractNames(symbol, report_type)
        dataset_id == ByReportType(DATASET_IDS, report_type)
        field_mapping == ByReportType(REPORT_FIELD_MAPPINGS, report_type)
    IN  IF contract_names = <<>>
        THEN [exc |-> FALSE, series |-> <<>>, queries |-> <<>>, failed |-> FALSE]
        ELSE LET got == CollectAll(dataset_id, contract_names, remote, 1)
                 out == HistProcess(got.rows, field_mapping)
             IN  [exc |-> HistExcept(got, out).exc,
                  series |-> HistExcept(got, out).series,
                  queries |-> got.queries,
                  failed |-> got.exc \/ out.exc]

\* ------------------------------------------------------------------------
\* Inputs of the fetcher model
\* ------------------------------------------------------------------------
\* The values the varied field of a sampled row takes: a number and a
\* non-finite numeric string.
SampleValues == {Num(1), Inf}

\* A Legacy row whose report date is d and whose non-commercial long field is
\* a; the other fields mix numbers with malformed, missing and "nan" values.
LatestRow(d, a) ==
    [f |-> [name \in LatestFields |->
              CASE name = "noncomm_positions_long_all" -> a
                [] name = "noncomm_positions_short_all" -> Num(1)
                [] name = "comm_positions_long_all" -> Num(2)
                [] name = "comm_positions_short_all" -> Bad
                [] name = "nonrept_positions_long_all" -> None
                [] name = "nonrept_positions_short_all" -> NaN
                [] name = "open_interest_all" -> Num(4)
                [] name = "change_in_noncomm_long_all" -> Num(1)
                [] OTHER -> Num(0)],
     report_date_as_yyyy_mm_dd |-> d]

LatestRows ==
    {LatestRow(d, a) : d \in 1..MaxDate, a \in SampleValues}

\* A limit=1 query is answered by a failure, by no row or by one row.
LatestResponse == {Failure, Rows(<<>>)} \cup {Rows(<<r>>) : r \in LatestRows}

\* The responses to the queries of one call: one per contract name, cut
\* after the first failure.
LatestResponses(contract_names) ==
    UNION {{resp \in [1..n -> LatestResponse] :
               /\ \A i \in 1..(n - 1) : resp[i].k # "fail"
               /\ n < Len(contract_names) => resp[n].k = "fail"} :
           n \in 1..Len(contract_names)}

ReportTypes == {"legacy", "disaggregated", "tff", "bogus"}

\* The columns of the dataset a report type is read from.
HistFields(report_type) ==
    LET m == ByReportType(REPORT_FIELD_MAPPINGS, report_type)
    IN  {m[t][i] : t \in DOMAIN m \cap {"trader1", "trader2", "trader3", "trader4"},
                   i \in 1..2}

\* A row of that dataset whose report date is d and whose first trader
\* category has the long field a; the other fields mix numbers with
\* malformed, missing and "nan" values.
HistRow(report_type, d, a) ==
    LET m == ByReportType(REPORT_FIELD_MAPPINGS, report_type)
    IN  [f |-> [name \in HistFields(report_type) |->
                  CASE name = m["trader1"][1] -> a
                    [] name = m["trader1"][2] -> Num(1)
                    [] name = m["trader2"][1] -> Num(2)
                    [] name = m["trader2"][2] -> Bad
                    [] name = m["trader3"][1] -> None
                    [] name = m["trader3"][2] -> NaN
                    [] OTHER -> Num(3)],
         report_date_as_yyyy_mm_dd |-> d]

HistRows(report_type) ==
    {HistRow(report_type, d, a) :
        d \in 1..MaxDate, a \in SampleValues}

EmptySource == [rows |-> <<>>, failAt |-> 0]

\* What the remote source can hold for one contract name with at most budget
\* rows, and which of the page requests it takes (if any) fails.
HistSources(rowset, budget) ==
    UNION {{[rows |-> rows, failAt |-> k] :
               rows \in [1..n -> rowset], k \in 0..(n \div batch_size + 1)} :
           n \in 0..budget}

\* The sources of n contract names holding at most budget rows together; the
\* names after a failed request are not consulted.
RECURSIVE HistRemotes(_, _, _)
HistRemotes(n, rowset, budget) ==
    IF n = 0 THEN {<<>>}
    ELSE UNION {{<<src>> \o rest :
                    rest \in (IF src.failAt # 0
                              THEN {[i \in 1..(n - 1) |-> EmptySource]}
                              ELSE HistRemotes(n - 1, rowset,
                                               budget - Len(src.rows)))} :
                src \in HistSources(rowset, budget)}

\* The inputs of the history calls of the cache model: at most one row.
HistInputsSmall ==
    [symbol \in Symbols |-> [report_type \in ReportTypes |->
        HistRemotes(Len(HistContractNames(symbol, report_type)),
                    {HistRow(report_type, 1, Num(1))}, 1)]]

\* The inputs of the history model: at most MaxRows rows.
HistInputsFull(symbol, report_type) ==
    HistRemotes(Len(HistContractNames(symbol, report_type)),
                HistRows(report_type), MaxRows)

NoCall == [symbol |-> <<>>, report_type |-> "", op |-> "none"]
NoRow == <<>>
NoRet == [exc |-> FALSE, report |-> _get_empty_report, series |-> <<>>]

\* The defaults of the State class for the fields the data handlers touch:
\* the placeholder figures of the COT panel, an empty chart, the E-mini S&P
\* and the Legacy report.
StateDefaults ==
    [report_date |-> [d |-> 0, kind |-> "Loading..."],
     open_interest |-> 2847234, oi_change |-> 45234,
     non_commercial_long |-> 487234, non_commercial_short |-> 324156,
     non_commercial_net |-> 163078, non_commercial_change |-> 12453,
     non_commercial_pct |-> 285,
     commercial_long |-> 612000, commercial_short |-> 758000,
     commercial_net |-> -146000, commercial_change |-> -8234,
     commercial_pct |-> 482,
     non_reportable_long |-> 148000, non_reportable_short |-> 165078,
     non_reportable_net |-> -17078, non_reportable_change |-> 2341,
     non_reportable_pct |-> 110,
     chart_data |-> <<>>,
     selected_symbol |-> SymES,
     selected_trader |-> "all",
     report_type |-> "legacy",
     is_refreshing |-> FALSE,
     chart_data_view |-> "position",
     zoom_level |-> 100,
     percentile_trader_type |-> "Non-Commercial",
     percentile_data |-> <<>>,
     percentile_lookback |-> "1y",
     percentile_history |-> <<>>,
     current_percentile |-> 500,
     percentile_interpretation |-> "",
     top_bullish |-> <<>>,
     bottom_bearish |-> <<>>,
     show_zscore_panel |-> FALSE,
     zscore_data |->
         [z_score |-> 0, interpretation |-> "Loading...",
          color |-> "#94a3b8", mean |-> 0, std |-> 0, current |-> 0,
          trader_type |-> "Non-Commercial", data_points |-> 0],
     indicator_trader_type |-> "Non-Commercial"]

\* ------------------------------------------------------------------------
\* State machine of the fetcher and its cache
\* ------------------------------------------------------------------------
Init ==
    /\ cache = [p \in CacheFiles |-> Absent]
    /\ now = 0
    /\ call = NoCall
    /\ latestIn = <<>>
    /\ histIn = <<>>
    /\ saveIn = "none"
    /\ queries = <<>>
    /\ ret = NoRet
    /\ dash = StateDefaults
    /\ data = NoRow

\* The inputs the remote source can give to a call for each symbol.
LatestInputs ==
    [symbol \in Symbols |->
        LatestResponses(RegistryGet(SYMBOL_TO_CONTRACT, symbol))]

\* One call fetch_latest_report(symbol). The remote source answers only when
\* it is queried, the file system only when the cache is written.
FetchLatest(symbol) ==
    \E resp \in (IF LatestQueriesRemote(cache, now, symbol)
                 THEN LatestInputs[symbol] ELSE {<<>>}) :
      \E outcome \in (IF LatestQueriesRemote(cache, now, symbol)
                      THEN SaveOutcomes \cup {"none"} ELSE {"none"}) :
        \E r \in {fetch_latest_report(cache, now, symbol, resp,
                    IF outcome = "none" THEN "ok" ELSE outcome)} :
            /\ r.wrote = (outcome # "none")
            /\ cache' = r.cache
            /\ call' = [symbol |-> symbol, report_type |-> "legacy",
                        op |-> "latest"]
            /\ latestIn' = resp
            /\ histIn' = <<>>
            /\ saveIn' = outcome
            /\ queries' = r.queries
            /\ ret' = [exc |-> r.exc, report |-> r.report, series |-> <<>>]
            /\ UNCHANGED <<now, dash, data>>

\* The return of fetch_historical_data(symbol, report_type=report_type)
\* against the remote source remote.
HistReturn(symbol, report_type, remote) ==
    \E r \in {fetch_historical_data(symbol, report_type, remote)} :
        /\ call' = [symbol |-> symbol, report_type |-> report_type,
                    op |-> "history"]
        /\ histIn' = remote
        /\ queries' = r.queries
        /\ ret' = [exc |-> r.exc, report |-> _get_empty_report,
                   series |-> r.series]
        /\ latestIn' = <<>>
        /\ saveIn' = "none"
        /\ UNCHANGED <<cache, now, dash, data>>

\* One call of fetch_historical_data in the cache model.
FetchHistorical(symbol, report_type) ==
    \E remote \in HistInputsSmall[symbol][report_type] :
        HistReturn(symbol, report_type, remote)

\* Time passes.
Tick ==
    /\ now + TickHours <= MaxNow
    /\ now' = now + TickHours
    /\ UNCHANGED <<call, cache, latestIn, histIn, saveIn, queries, ret, dash, data>>

Next ==
    \/ \E symbol \in Symbols : FetchLatest(symbol)
    \/ \E symbol \in Symbols, report_type \in ReportTypes :
          FetchHistorical(symbol, report_type)
    \/ Tick

Spec == Init /\ [][Next]_vars

\* ------------------------------------------------------------------------
\* State machine of the historical fetch alone
\* ------------------------------------------------------------------------
\* A call fetch_historical_data(symbol, report_type=report_type) is about to
\* run against a remote source drawn from the inputs of the history model.
InitHist ==
    /\ cache = [p \in CacheFiles |-> Absent]
    /\ now = 0
    /\ \E symbol \in Symbols, report_type \in ReportTypes :
          /\ call = [symbol |-> symbol, report_type |-> report_type,
                     op |-> "pending"]
          /\ histIn \in HistInputsFull(symbol, report_type)
    /\ latestIn = <<>>
    /\ saveIn = "none"
    /\ queries = <<>>
    /\ ret = NoRet
    /\ dash = StateDefaults
    /\ data = NoRow

\* The pending call runs.
HistCall ==
    /\ call.op = "pending"
    /\ HistReturn(call.symbol, call.report_type, histIn)

NextHist == HistCall

SpecHist == InitHist /\ [][NextHist]_vars

\* ------------------------------------------------------------------------
\* State machine of the historical fetch over records that differ in value
\* ------------------------------------------------------------------------
\* Rows whose first trader category has the long field 1 or 2, so that two
\* rows of one report date are told apart by their net values.
DupValues == {Num(1), Num(2)}

DupRows(report_type) ==
    {HistRow(report_type, d, a) : d \in 1..MaxDate, a \in DupValues}

\* The calls of the model: symbols with contract names under the report type.
DupCalls ==
    {<<SymCL, "legacy">>, <<SymCL, "disaggregated">>,
     <<SymES, "legacy">>, <<SymES, "tff">>}

\* A call fetch_historical_data(symbol, report_type=report_type) is about to
\* run against a remote source that holds such rows.
InitDup ==
    /\ cache = [p \in CacheFiles |-> Absent]
    /\ now = 0
    /\ \E c \in DupCalls :
          /\ call = [symbol |-> c[1], report_type |-> c[2], op |-> "pending"]
          /\ histIn \in HistRemotes(Len(HistContractNames(c[1], c[2])),
                                    DupRows(c[2]), MaxRows)
    /\ latestIn = <<>>
    /\ saveIn = "none"
    /\ queries = <<>>
    /\ ret = NoRet
    /\ dash = StateDefaults
    /\ data = NoRow

NextDup == HistCall

SpecDup == InitDup /\ [][NextDup]_vars

\* ------------------------------------------------------------------------
\* State machine of the pagination loop of fetch_historical_data, one
\* request of the remote source per step
\* ------------------------------------------------------------------------
\* The most rows the remote source holds for the names of one symbol.
MaxPageRows == 4

\* The calls of the model: a symbol with two names, a symbol with one name
\* and a symbol without names.
PageCalls == {<<SymCL, "legacy">>, <<SymES, "tff">>, <<SymXX, "legacy">>}

\* Mutant: the loop over the pages of a name ends only on an empty page.
PageEnds_empty(results) == results = <<>>

\* The two breaks of the while loop: no results, or fewer than batch_size.
PageEnds(results) == results = <<>> \/ Len(results) < batch_size

\* The loop position before the first request of the first name.
LoopStart == [i |-> 1, offset |-> 0, request |-> 1, all_dfs |-> <<>>]

\* A call fetch_historical_data(symbol, report_type=report_type) is about to
\* run; every name's source holds finitely many rows and serves the rows at
\* the requested offset, or fails one request.
InitPage ==
    /\ cache = [p \in CacheFiles |-> Absent]
    /\ now = 0
    /\ \E c \in PageCalls :
          /\ call = [symbol |-> c[1], report_type |-> c[2], op |-> "pending"]
          /\ histIn \in HistRemotes(Len(HistContractNames(c[1], c[2])),
                                    {HistRow(c[2], 1, Num(1))}, MaxPageRows)
    /\ latestIn = <<>>
    /\ saveIn = "none"
    /\ queries = <<>>
    /\ ret = NoRet
    /\ dash = StateDefaults
    /\ data = NoRow

\* The call starts: without contract names it returns the empty list,
\* otherwise it enters the loops.
HistStart ==
    /\ call.op = "pending"
    /\ IF HistContractNames(call.symbol, call.report_type) = <<>>
       THEN /\ call' = [call EXCEPT !.op = "history"]
            /\ ret' = [exc |-> FALSE, report |-> _get_empty_report,
                       series |-> <<>>]
            /\ data' = data
       ELSE /\ call' = [call EXCEPT !.op = "paginating"]
            /\ ret' = ret
            /\ data' = LoopStart
    /\ UNCHANGED <<cache, now, latestIn, histIn, saveIn, queries, dash>>

\* One client.get of the while loop, for the current name at the current
\* offset: a failed request ends the call in the except branch, an empty or
\* short page moves to the next name, a full page to the next offset.
ClientGet ==
    LET contract_names == HistContractNames(call.symbol, call.report_type)
        dataset_id == ByReportType(DATASET_IDS, call.report_type)
    IN  /\ call.op = "paginating"
        /\ data.i <= Len(contract_names)
        /\ queries' = Append(queries,
                             HistQuery(dataset_id, contract_names[data.i],
                                       data.offset))
        /\ IF data.request = histIn[data.i].failAt
           THEN /\ call' = [call EXCEPT !.op = "history"]
                /\ ret' = [exc |-> FALSE, report |-> _get_empty_report,
                           series |-> <<>>]
                /\ data' = data
           ELSE LET src == histIn[data.i]
                    results == SubSeq(src.rows, data.offset + 1,
                                      Min(data.offset + batch_size,
                                          Len(src.rows)))
                    all_dfs == data.all_dfs \o results
                IN  /\ data' = IF PageEnds(results)
                               THEN [i |-> data.i + 1, offset |-> 0,
                                     request |-> 1, all_dfs |-> all_dfs]
                               ELSE [i |-> data.i,
                                     offset |-> data.offset + batch_size,
                                     request |-> data.request + 1,
                                     all_dfs |-> all_dfs]
                    /\ UNCHANGED <<call, ret>>
        /\ UNCHANGED <<cache, now, latestIn, histIn, saveIn, dash>>

\* The loops are over: the collected rows are processed and the call
\* returns.
ProcessCollected ==
    LET contract_names == HistContractNames(call.symbol, call.report_type)
        field_mapping == ByReportType(REPORT_FIELD_MAPPINGS, call.report_type)
        got == [exc |-> FALSE, rows |-> data.all_dfs]
        out == HistProcess(data.all_dfs, field_mapping)
    IN  /\ call.op = "paginating"
        /\ data.i > Len(contract_names)
        /\ call' = [call EXCEPT !.op = "history"]
        /\ ret' = [exc |-> HistExcept(got, out).exc,
                   report |-> _get_empty_report,
                   series |-> HistExcept(got, out).series]
        /\ UNCHANGED <<cache, now, latestIn, histIn, saveIn, queries, dash,
                       data>>

NextPage == HistStart \/ ClientGet \/ ProcessCollected

\* The interpreter always takes the next step of the running call.
SpecPage == InitPage /\ [][NextPage]_vars /\ WF_vars(NextPage)

\* ------------------------------------------------------------------------
\* The dashboard state and its handlers (cot_dashboard.py)
\* ------------------------------------------------------------------------
\* fetch_cot_data(symbol): the latest report of the shared fetcher.
fetch_cot_data(c, t, symbol, resp, outcome) ==
    fetch_latest_report(c, t, symbol, resp, outcome)

\* fetch_chart_data(symbol, report_type=report_type).
fetch_chart_data(symbol, report_type, remote) ==
    fetch_historical_data(symbol, report_type, remote)

\* State._update_cot_data on the state fields: latest is the outcome of
\* fetch_cot_data, chart that of fetch_chart_data. The try block stops at the
\* first call that raises and keeps the assignments made before it.
_update_cot_data(state, latest, chart) ==
    IF latest.exc THEN state
    ELSE LET copied ==
                 [state EXCEPT
                    !.report_date = latest.report.report_date,
                    !.open_interest = latest.report.open_interest,
                    !.oi_change = latest.report.oi_change,
                    !.non_commercial_long = latest.report.non_commercial_long,
                    !.non_commercial_short = latest.report.non_commercial_short,
                    !.non_commercial_net = latest.report.non_commercial_net,
                    !.non_commercial_change = latest.report.non_commercial_change,
                    !.non_commercial_pct = latest.report.non_commercial_pct,
                    !.commercial_long = latest.report.commercial_long,
                    !.commercial_short = latest.report.commercial_short,
                    !.commercial_net = latest.report.commercial_net,
                    !.commercial_change = latest.report.commercial_change,
                    !.commercial_pct = latest.report.commercial_pct,
                    !.non_reportable_long = latest.report.non_reportable_long,
                    !.non_reportable_short = latest.report.non_reportable_short,
                    !.non_reportable_net = latest.report.non_reportable_net,
                    !.non_reportable_change = latest.report.non_reportable_change,
                    !.non_reportable_pct = latest.report.non_reportable_pct]
         IN  IF chart.exc THEN copied
             ELSE [copied EXCEPT !.chart_data = chart.series]

\* The symbols selected in the model, one with contract names and one the
\* registries lack, and the report types of the selector.
DashSymbols == {SymES, SymXX}
DashReportTypes == {"legacy", "disaggregated", "tff"}
DashTraders == {"all", "commercial"}

\* What the remote source can answer to the latest queries of a dashboard
\* event: a failure, no row, or one row of the first date.
DashLatestResponse ==
    {Failure, Rows(<<>>)} \cup {Rows(<<LatestRow(1, a)>>) : a \in {Num(1), Inf}}

DashLatestResponses(contract_names) ==
    UNION {{resp \in [1..n -> DashLatestResponse] :
               /\ \A i \in 1..(n - 1) : resp[i].k # "fail"
               /\ n < Len(contract_names) => resp[n].k = "fail"} :
           n \in 1..Len(contract_names)}

DashLatestInputs ==
    [symbol \in Symbols |->
        DashLatestResponses(RegistryGet(SYMBOL_TO_CONTRACT, symbol))]


\* ------------------------------------------------------------------------
\* State machine of _process_latest_report alone
\* ------------------------------------------------------------------------
\* A row whose six position fields are the given raw values.
PctRow(v) ==
    [f |-> [name \in LatestFields |->
              CASE name = "noncomm_positions_long_all" -> v[1]
                [] name = "noncomm_positions_short_all" -> v[2]
                [] name = "comm_positions_long_all" -> v[3]
                [] name = "comm_positions_short_all" -> v[4]
                [] name = "nonrept_positions_long_all" -> v[5]
                [] name = "nonrept_positions_short_all" -> v[6]
                [] OTHER -> Num(0)],
     report_date_as_yyyy_mm_dd |-> 1]

\* Position fields with shares of the total halfway between two tenths:
\* 28.75, 61.25, 63.75, 26.25 and 0.15 percent.
PctHalfway ==
    {<<23, 0, 49, 0, 8, 0>>, <<51, 0, 21, 0, 8, 0>>, <<3, 0, 1997, 0, 0, 0>>}

\* The rows whose position fields are the numbers -1..MaxPos, and the rows
\* of PctHalfway.
PctRows ==
    {PctRow(v) : v \in [1..6 -> {Num(n) : n \in -1..MaxPos}]}
        \cup {PctRow([i \in 1..6 |-> Num(v[i])]) : v \in PctHalfway}

\* A row is about to be processed.
InitPct ==
    /\ cache = [p \in CacheFiles |-> Absent]
    /\ now = 0
    /\ call = [symbol |-> <<>>, report_type |-> "legacy", op |-> "pending"]
    /\ latestIn = <<>>
    /\ histIn = <<>>
    /\ saveIn = "none"
    /\ queries = <<>>
    /\ ret = NoRet
    /\ dash = StateDefaults
    /\ data \in PctRows

\* _process_latest_report(data) runs.
ProcessRow ==
    /\ call.op = "pending"
    /\ data # NoRow
    /\ \E r \in {_process_latest_report(data)} :
          ret' = [exc |-> r.exc, report |-> r.report, series |-> <<>>]
    /\ call' = [call EXCEPT !.op = "process"]
    /\ UNCHANGED <<cache, now, latestIn, histIn, saveIn, queries, dash, data>>

NextPct == ProcessRow

SpecPct == InitPct /\ [][NextPct]_vars

\* ------------------------------------------------------------------------
\* State machine of the numeric coercions: one raw row is processed
\* ------------------------------------------------------------------------
\* The shapes a raw field value can have.
RawValues == {Num(2), Bad, None, NaN, Inf}

\* The Legacy rows whose non-commercial and commercial position fields are
\* raw values of every shape.
CoerceRows ==
    {[f |-> [name \in LatestFields |->
               CASE name = "noncomm_positions_long_all" -> v[1]
                 [] name = "noncomm_positions_short_all" -> v[2]
                 [] name = "comm_positions_long_all" -> v[3]
                 [] name = "comm_positions_short_all" -> v[4]
                 [] OTHER -> Num(1)],
      report_date_as_yyyy_mm_dd |-> 1] : v \in [1..4 -> RawValues]}

\* A raw row is about to be processed.
InitCoerce ==
    /\ cache = [p \in CacheFiles |-> Absent]
    /\ now = 0
    /\ call = [symbol |-> <<>>, report_type |-> "legacy", op |-> "pending"]
    /\ latestIn = <<>>
    /\ histIn = <<>>
    /\ saveIn = "none"
    /\ queries = <<>>
    /\ ret = NoRet
    /\ dash = StateDefaults
    /\ data \in CoerceRows

\* The processing steps of fetch_historical_data (lines 571-627) run on a
\* frame that holds the row.
ProcessHistoryRow ==
    /\ call.op = "pending"
    /\ data # NoRow
    /\ \E r \in {HistProcess(<<data>>, REPORT_FIELD_MAPPINGS["legacy"])} :
          ret' = [exc |-> r.exc, report |-> _get_empty_report,
                  series |-> r.series]
    /\ call' = [call EXCEPT !.op = "history_process"]
    /\ UNCHANGED <<cache, now, latestIn, histIn, saveIn, queries, dash, data>>

NextCoerce == ProcessRow \/ ProcessHistoryRow

SpecCoerce == InitCoerce /\ [][NextCoerce]_vars

\* ------------------------------------------------------------------------
\* Derivation engine: calculate_rolling_zscore
\* ------------------------------------------------------------------------
\* Positions are integers (the nets of the chart points).  A z-score, which
\* the code rounds to two decimals, is held in hundredths (2.0 is 200).
\* The fields percentile, mean and std of the result are not modelled.

\* sum(values) over a list.
RECURSIVE Sum(_)
Sum(values) ==
    IF values = <<>> THEN 0 ELSE Head(values) + Sum(Tail(values))

\* The list of the squares of the values.
Squares(values) == [i \in DOMAIN values |-> values[i] * values[i]]

\* Python's values[-n:] if len(values) >= n else values, for n >= 1.
LastN(values, n) ==
    IF Len(values) >= n
    THEN SubSeq(values, Len(values) - n + 1, Len(values))
    ELSE values

\* The window of history the z-score is computed over:
\* historical_positions[-window:] if len(historical_positions) >= window
\* else historical_positions. A window of 0 or less never exceeds the
\* length: -0 is 0 and the slice from 0 on is the whole list, and a
\* negative window gives the slice that leaves out the first -window values.
ZWindow(historical_positions, window) ==
    IF window > 0 THEN LastN(historical_positions, window)
    ELSE SubSeq(historical_positions, 1 - window, Len(historical_positions))

\* len(values)^2 * np.std(values)^2: the population variance of the window
\* scaled by the square of its length, which is an integer.
ScaledVariance(values) ==
    Len(values) * Sum(Squares(values)) - Sum(values) * Sum(values)

\* len(values) * (current_position - np.mean(values)).
ScaledDeviation(current_position, values) ==
    Len(values) * current_position - Sum(values)

\* The largest r + x with x below 2^b and (r + x)^2 <= n, for r * r <= n.
RECURSIVE IsqrtFrom(_, _, _)
IsqrtFrom(n, r, b) ==
    IF b = 0 THEN r
    ELSE IF r + Pow2(b - 1) <= n \div (r + Pow2(b - 1))
    THEN IsqrtFrom(n, r + Pow2(b - 1), b - 1)
    ELSE IsqrtFrom(n, r, b - 1)

\* The largest r with r * r <= n.
Isqrt(n) == IsqrtFrom(n, 0, 16)

\* np.add.reduce of doubles: acc + xs[i] + xs[i + step] + ... up to the
\* index last, added one after the other.
RECURSIVE FlSumFrom(_, _, _, _, _)
FlSumFrom(xs, i, step, last, acc) ==
    IF i > last THEN acc
    ELSE FlSumFrom(xs, i + step, step, last, FlAdd(acc, xs[i]))

\* The pairwise summation of numpy: fewer than 8 values are added one after
\* the other; up to 128 values are added in 8 interleaved partial sums that
\* are then added in pairs, the values beyond the last full block of 8 one
\* after the other; more values are split in two halves, the first one of
\* a multiple of 8 values.
RECURSIVE pairwise_sum(_)
pairwise_sum(xs) ==
    LET n == Len(xs)
        r(j) == FlSumFrom(xs, j + 8, 8, n - (n % 8), xs[j])
        n2 == (n \div 2) - ((n \div 2) % 8)
    IN  IF n < 8 THEN FlSumFrom(xs, 1, 1, n, FlZero)
        ELSE IF n <= 128
        THEN FlSumFrom(xs, n - (n % 8) + 1, 1, n,
                       FlAdd(FlAdd(FlAdd(r(1), r(2)), FlAdd(r(3), r(4))),
                             FlAdd(FlAdd(r(5), r(6)), FlAdd(r(7), r(8)))))
        ELSE FlAdd(pairwise_sum(SubSeq(xs, 1, n2)),
                   pairwise_sum(SubSeq(xs, n2 + 1, n)))

\* np.mean(values) of a non-empty list of integers.
np_mean(values) ==
    FlDiv(pairwise_sum([i \in DOMAIN values |-> FlOfInt(values[i])]),
          FlOfInt(Len(values)))

\* The squares of the deviations of the values from mean.
SquaredDeviations(values, mean) ==
    [i \in DOMAIN values |->
        FlMul(FlSub(FlOfInt(values[i]), mean),
              FlSub(FlOfInt(values[i]), mean))]

\* np.std(values), mean being np.mean(values).
np_std(values, mean) ==
    FlSqrt(FlDiv(pairwise_sum(SquaredDeviations(values, mean)),
                 FlOfInt(Len(values))))

\* The largest list length, position, deviation and variance for which the
\* z-scores are computed on integers.
ZExactLen == 64
ZExactPos == 100
ZExactDev == 100
ZExactVar == 40000000

\* The positions are few and small enough for ScaledVariance and
\* ScaledDeviation.
ZSmall(current_position, values) ==
    /\ Len(values) <= ZExactLen
    /\ -ZExactPos <= current_position /\ current_position <= ZExactPos
    /\ \A i \in DOMAIN values :
          -ZExactPos <= values[i] /\ values[i] <= ZExactPos

\* 100 * dev / sqrt(var) is halfway between two hundredths: the quotient
\* of 40000 * dev^2 by var is the square of an odd integer.
ZTie(dev, var) ==
    /\ (40000 * dev * dev) % var = 0
    /\ Isqrt((40000 * dev * dev) \div var) % 2 = 1
    /\ Isqrt((40000 * dev * dev) \div var)
         * Isqrt((40000 * dev * dev) \div var) = (40000 * dev * dev) \div var

\* The hundredth nearest to 100 * dev / sqrt(var) is the z-score the
\* doubles give: the deviation and the variance are small, and the quotient
\* is not halfway between two hundredths. It is then further from the
\* halfway values than the double z is from it.
ZExact(dev, var) ==
    /\ -ZExactDev <= dev /\ dev <= ZExactDev
    /\ 0 < var /\ var <= ZExactVar
    /\ ~ZTie(dev, var)

\* round(dev / sqrt(var), 2) in hundredths for ZExact(dev, var): the
\* hundredth nearest to the quotient.
RoundZ(dev, var) ==
    IF dev >= 0 THEN (Isqrt((40000 * dev * dev) \div var) + 1) \div 2
    ELSE -((Isqrt((40000 * dev * dev) \div var) + 1) \div 2)

\* Mutant: fewer than 1 historical value is insufficient.
InsufficientHistory_one(historical_positions) == Len(historical_positions) < 1

\* "not historical_positions or len(historical_positions) < 2".
InsufficientHistory(historical_positions) ==
    historical_positions = <<>> \/ Len(historical_positions) < 2

\* The result for insufficient history.
ZInsufficient ==
    [z_score |-> 0, interpretation |-> "Insufficient data",
     is_extreme |-> FALSE]

\* Mutant: a window without variance is reported as "Neutral".
ZNoVariance_neutral ==
    [z_score |-> 0, interpretation |-> "Neutral", is_extreme |-> FALSE]

\* The result for a window whose standard deviation is 0.
ZNoVariance ==
    [z_score |-> 0, interpretation |-> "No variance in data",
     is_extreme |-> FALSE]

\* The result for an empty window, which a negative window parameter of
\* the length of the history or more leaves: np.mean and np.std of no
\* values are nan, nan is not 0, the z-score is nan, and every comparison
\* with nan is false.
ZNaN ==
    [z_score |-> NaN, interpretation |-> "Extremely Bearish",
     is_extreme |-> FALSE]

\* Mutant: the thresholds are inclusive on the bullish side.
Interpretation_inclusive(z_score) ==
    IF z_score >= 200 THEN "Extremely Bullish"
    ELSE IF z_score >= 100 THEN "Bullish"
    ELSE IF z_score > -100 THEN "Neutral"
    ELSE IF z_score > -200 THEN "Bearish"
    ELSE "Extremely Bearish"

\* The interpretation cascade on the rounded z-score.
Interpretation(z_score) ==
    IF z_score > 200 THEN "Extremely Bullish"
    ELSE IF z_score > 100 THEN "Bullish"
    ELSE IF z_score > -100 THEN "Neutral"
    ELSE IF z_score > -200 THEN "Bearish"
    ELSE "Extremely Bearish"

\* abs(z_score) >= 2.
IsExtreme(z_score) == z_score >= 200 \/ z_score <= -200

\* The result for a rounded z-score.
ZResult(z_score) ==
    [z_score |-> z_score,
     interpretation |-> Interpretation(z_score),
     is_extreme |-> IsExtreme(z_score)]

\* The result from the doubles mean and std on.
ZOfDoubles(current_position, mean, std) ==
    IF std.s = 0 THEN ZNoVariance
    ELSE ZResult(FlRound(FlDiv(FlSub(FlOfInt(current_position), mean), std),
                         2))

\* The result from the window recent_data on.
ZOfWindow(current_position, recent_data) ==
    IF recent_data = <<>> THEN ZNaN
    ELSE IF ~ZSmall(current_position, recent_data)
    THEN ZOfDoubles(current_position, np_mean(recent_data),
                    np_std(recent_data, np_mean(recent_data)))
    ELSE IF ScaledVariance(recent_data) = 0 THEN ZNoVariance
    ELSE IF ZExact(ScaledDeviation(current_position, recent_data),
                   ScaledVariance(recent_data))
    THEN ZResult(RoundZ(ScaledDeviation(current_position, recent_data),
                        ScaledVariance(recent_data)))
    ELSE ZOfDoubles(current_position, np_mean(recent_data),
                    np_std(recent_data, np_mean(recent_data)))

calculate_rolling_zscore(current_position, historical_positions, window) ==
    IF InsufficientHistory(historical_positions) THEN ZInsufficient
    ELSE ZOfWindow(current_position, ZWindow(historical_positions, window))

\* ------------------------------------------------------------------------
\* Derivation engine: calculate_positioning_velocity
\* ------------------------------------------------------------------------
\* The smoothed series, the velocities and the accelerations are multiples
\* of 1 / smoothing_window; they are held as integers in that unit (with
\* smoothing_window 4, a velocity of 11.25 is 45).  The smoothing windows of
\* the model are powers of two, for which the floating-point sums and
\* quotients of integer positions are exact.

\* The element at 0-based offset k of the series extended beyond its ends
\* by reflection about the edge (d c b a | a b c d | d c b a), the default
\* mode of uniform_filter1d.
Reflect(positions, k) ==
    LET n == Len(positions)
    IN  IF k < 0 THEN positions[-k]
        ELSE IF k >= n THEN positions[2 * n - k]
        ELSE positions[k + 1]

\* size * uniform_filter1d(positions, size): the sum of the window of
\* length size placed at offsets -(size // 2) .. size - size // 2 - 1 of
\* each element.
uniform_filter1d(positions, size) ==
    [i \in DOMAIN positions |->
        Sum([j \in 1..size |->
                Reflect(positions, (i - 1) + (j - 1) - (size \div 2))])]

\* The series the differences are taken of, in units of 1 / smoothing_window.
Smoothed(positions, smoothing_window) ==
    IF Len(positions) >= smoothing_window
    THEN uniform_filter1d(positions, smoothing_window)
    ELSE [i \in DOMAIN positions |-> positions[i] * smoothing_window]

\* np.diff(values).
Diff(values) ==
    [i \in 1..(Len(values) - 1) |-> values[i + 1] - values[i]]

\* round(num / den, 0) for den > 0: the nearest integer, a tie to the even one.
RoundEven(num, den) ==
    LET q == num \div den
        r == num - q * den
    IN  IF 2 * r > den \/ (2 * r = den /\ q % 2 = 1) THEN q + 1 ELSE q

\* "not positions or len(positions) < 3".
InsufficientPoints(positions) == positions = <<>> \/ Len(positions) < 3

\* The result for insufficient points.
VelocityInsufficient ==
    [velocity |-> 0, acceleration |-> 0, trend |-> "Insufficient data",
     momentum_signal |-> "Neutral",
     velocity_series |-> <<>>, acceleration_series |-> <<>>]

\* The trend and the momentum signal of a velocity and an acceleration.
TrendOf(current_velocity, current_acceleration) ==
    IF current_velocity > 0
    THEN IF current_acceleration > 0
         THEN [trend |-> "Accelerating Buildup",
               momentum_signal |-> "Strong Bullish"]
         ELSE IF current_acceleration < 0
         THEN [trend |-> "Decelerating Buildup",
               momentum_signal |-> "Weakening Bullish"]
         ELSE [trend |-> "Steady Buildup", momentum_signal |-> "Bullish"]
    ELSE IF current_velocity < 0
    THEN IF current_acceleration < 0
         THEN [trend |-> "Accelerating Selloff",
               momentum_signal |-> "Strong Bearish"]
         ELSE IF current_acceleration > 0
         THEN [trend |-> "Decelerating Selloff",
               momentum_signal |-> "Potential Reversal"]
         ELSE [trend |-> "Steady Selloff", momentum_signal |-> "Bearish"]
    ELSE [trend |-> "Stable", momentum_signal |-> "Neutral"]

calculate_positioning_velocity(positions, smoothing_window) ==
    IF InsufficientPoints(positions) THEN VelocityInsufficient
    ELSE LET smoothed == Smoothed(positions, smoothing_window)
             velocity == Diff(smoothed)
             acceleration ==
                 IF Len(velocity) > 1 THEN Diff(velocity) ELSE <<0>>
             current_velocity ==
                 IF Len(velocity) > 0 THEN velocity[Len(velocity)] ELSE 0
             current_acceleration ==
                 IF Len(acceleration) > 0
                 THEN acceleration[Len(acceleration)] ELSE 0
             t == TrendOf(current_velocity, current_acceleration)
         IN  [velocity |-> RoundEven(current_velocity, smoothing_window),
              acceleration |->
                  RoundEven(current_acceleration, smoothing_window),
              trend |-> t.trend,
              momentum_signal |-> t.momentum_signal,
              velocity_series |-> LastN(velocity, 20),
              acceleration_series |-> LastN(acceleration, 20)]

\* ------------------------------------------------------------------------
\* Dashboard: State._calculate_current_percentile_history
\* ------------------------------------------------------------------------
\* Percentiles, which the code rounds to one decimal, are held in tenths
\* (50.0 is 500).

\* The chart key read for a trader type under a report type.
trader_key_map(report_type) ==
    IF report_type = "legacy"
    THEN ("Non-Commercial" :> "non_commercial"
            @@ "Commercial" :> "commercial"
            @@ "Non-Reportable" :> "non_reportable")
    ELSE IF report_type = "disaggregated"
    THEN ("Non-Commercial" :> "managed_money"
            @@ "Commercial" :> "producer_merchant"
            @@ "Non-Reportable" :> "other_reportable")
    ELSE ("Non-Commercial" :> "leveraged_funds"
            @@ "Commercial" :> "dealer"
            @@ "Non-Reportable" :> "other_reportable")

\* The key of the first trader type of each report type.
default_keys ==
    [legacy |-> "non_commercial", disaggregated |-> "managed_money",
     tff |-> "leveraged_funds"]

\* trader_key_map.get(percentile_trader_type, default_key).
trader_key(report_type, percentile_trader_type) ==
    LET default_key ==
            IF report_type \in DOMAIN default_keys
            THEN default_keys[report_type] ELSE "non_commercial"
        m == trader_key_map(report_type)
    IN  IF percentile_trader_type \in DOMAIN m
        THEN m[percentile_trader_type] ELSE default_key

\* The months of a lookback setting; an unknown setting counts as 12.
lookback_months_map == [6m |-> 6, 8m |-> 8, 1y |-> 12, 2y |-> 24, 3y |-> 36]

LookbackMonths(percentile_lookback) ==
    IF percentile_lookback \in DOMAIN lookback_months_map
    THEN lookback_months_map[percentile_lookback] ELSE 12

\* Mutant: the window of a point includes the point itself.
HistoricalWindow_inclusive(positions, i, lookback_weeks) ==
    LET start_idx == IF i - lookback_weeks > 0 THEN i - lookback_weeks ELSE 0
    IN  SubSeq(positions, start_idx + 1, i + 1)

\* positions[start_idx:i] for the point at 0-based index i, with
\* start_idx = max(0, i - lookback_weeks).
HistoricalWindow(positions, i, lookback_weeks) ==
    LET start_idx == IF i - lookback_weeks > 0 THEN i - lookback_weeks ELSE 0
    IN  IF i > start_idx THEN SubSeq(positions, start_idx + 1, i) ELSE <<>>

\* The number of values of a list that are below a value.
CountBelow(values, value) ==
    Cardinality({k \in DOMAIN values : values[k] < value})

\* The rolling percentile of the point at 0-based index i, in tenths.
RollingPercentile(positions, i, lookback_weeks) ==
    LET historical_window == HistoricalWindow(positions, i, lookback_weeks)
        pos == positions[i + 1]
    IN  IF Len(historical_window) >= 4
        THEN RoundPct(CountBelow(historical_window, pos),
                      Len(historical_window))
        ELSE 500

\* The band of the interpretation text of a percentile in tenths.
PercentileBand(pct) ==
    IF pct >= 900 THEN "EXTREME BULLISH"
    ELSE IF pct >= 750 THEN "BULLISH"
    ELSE IF pct >= 500 THEN "NEUTRAL-BULLISH"
    ELSE IF pct >= 250 THEN "BEARISH"
    ELSE IF pct >= 100 THEN "VERY BEARISH"
    ELSE "EXTREME BEARISH"

\* The fields the handler assigns, from the fields of the state it reads.
\* Of the interpretation text only the band is kept.
_calculate_current_percentile_history(state) ==
    IF state.chart_data = <<>>
    THEN [percentile_history |-> <<>>, current_percentile |-> 500,
          percentile_interpretation |-> "No data available"]
    ELSE LET key == trader_key(state.report_type,
                               state.percentile_trader_type)
             positions ==
                 [k \in DOMAIN state.chart_data |->
                     IF key \in DOMAIN state.chart_data[k]
                     THEN state.chart_data[k][key] ELSE 0]
             lookback_weeks == LookbackMonths(state.percentile_lookback) * 4
             percentile_history ==
                 [k \in DOMAIN state.chart_data |->
                     [date |-> state.chart_data[k].date,
                      percentile |->
                          RollingPercentile(positions, k - 1, lookback_weeks),
                      position |-> positions[k]]]
             current_percentile ==
                 percentile_history[Len(percentile_history)].percentile
         IN  [percentile_history |-> percentile_history,
              current_percentile |-> current_percentile,
              percentile_interpretation |-> PercentileBand(current_percentile)]

\* ------------------------------------------------------------------------
\* Dashboard: State._calculate_zscore
\* ------------------------------------------------------------------------
\* The z-score of the panel, which the code rounds to two decimals, is held
\* in hundredths; mean and std are the integers the code stores.

\* _get_trader_data_key: the chart key of the indicator trader type.
_get_trader_data_key(indicator_trader_type) ==
    IF indicator_trader_type = "Non-Commercial" THEN "non_commercial"
    ELSE IF indicator_trader_type = "Commercial" THEN "commercial"
    ELSE "non_reportable"

\* int(total_points * (1 - zoom_level / 100)), the quotient, the difference
\* and the product each rounded to a double: the index falls one below the
\* exact total_points * (100 - zoom_level) / 100 where the product rounds
\* below an integer (5 * (1 - 80 / 100) is 0.9999999999999998, index 0).
\* The levels the zoom handlers set, 25, 50 and 75, are exact.
ZoomStart(total_points, zoom_level) ==
    FlTrunc(FlMul(FlOfInt(total_points),
                  FlSub(FlOfInt(1),
                        FlDiv(FlOfInt(zoom_level), FlOfInt(100)))))

\* The positions the zoom level keeps: historical_positions[start_idx:].
\* start_idx is not negative under the guard; an index past the end keeps
\* nothing.
ZoomedPositions(historical_positions, zoom_level) ==
    IF zoom_level < 100 /\ Len(historical_positions) > 0
    THEN SubSeq(historical_positions,
                ZoomStart(Len(historical_positions), zoom_level) + 1,
                Len(historical_positions))
    ELSE historical_positions

\* int(round(sqrt(num / den), 0)) for num >= 0 and den > 0: the nearest
\* integer, a tie to the even one. Twice the root is halfway when
\* 4 * num / den is the square of an odd integer.
RoundRoot(num, den) ==
    LET t == Isqrt((4 * num) \div den)
    IN  IF /\ t % 2 = 1 /\ (4 * num) % den = 0 /\ t * t = (4 * num) \div den
           /\ ((t + 1) \div 2) % 2 = 1
        THEN (t + 1) \div 2 - 1 ELSE (t + 1) \div 2

\* The interpretation and colour of the cascade, from the outcomes of its
\* comparisons z_score > 2, z_score > 1, z_score > -1 and z_score > -2.
PanelText(above2, above1, aboveMinus1, aboveMinus2) ==
    IF above2
    THEN [interpretation |-> "Bullish Extreme Positioning",
          color |-> "#3fb950"]
    ELSE IF above1
    THEN [interpretation |-> "Long Skew", color |-> "#56d364"]
    ELSE IF aboveMinus1
    THEN [interpretation |-> "Neutral Positioning", color |-> "#8b949e"]
    ELSE IF aboveMinus2
    THEN [interpretation |-> "Short Skew", color |-> "#f85149"]
    ELSE [interpretation |-> "Bearish Extreme Positioning",
          color |-> "#f85149"]

\* The interpretation and colour of the unrounded z-score
\* z = dev / sqrt(var), with var > 0 or z = 0.
PanelInterpretation(dev, var) ==
    PanelText(dev > 0 /\ dev * dev > 4 * var, dev > 0 /\ dev * dev > var,
              dev >= 0 \/ dev * dev < var, dev >= 0 \/ dev * dev < 4 * var)

\* The interpretation and colour of the unrounded z-score as a double.
PanelInterpretationOfDouble(z_score) ==
    PanelText(FlLess(FlOfInt(2), z_score), FlLess(FlOfInt(1), z_score),
              FlLess(FlOfInt(-1), z_score), FlLess(FlOfInt(-2), z_score))

\* The z-score the doubles give is the one computed on the integers: the
\* hundredth nearest to dev / sqrt(var) is the rounded z-score (ZExact), and
\* the quotient is none of the thresholds 1 and 2 of the cascade, at which
\* the double decides.
PanelExact(dev, var) ==
    ZExact(dev, var) /\ dev * dev # var /\ dev * dev # 4 * var

\* statistics.mean of a non-empty list of integers: the exact mean, as a
\* double unless it is an integer.
statistics_mean(values) == FlDiv(FlOfInt(Sum(values)), FlOfInt(Len(values)))

\* The sum of the squares of values[i..j].
RECURSIVE BigSumSquares(_, _, _)
BigSumSquares(values, i, j) ==
    IF i > j THEN <<>>
    ELSE IF i = j
    THEN BigMul(BigOfNat(IF values[i] >= 0 THEN values[i] ELSE -values[i]),
                BigOfNat(IF values[i] >= 0 THEN values[i] ELSE -values[i]))
    ELSE BigAdd(BigSumSquares(values, i, (i + j) \div 2),
                BigSumSquares(values, (i + j) \div 2 + 1, j), 0)

\* statistics.stdev of n >= 2 integers: the double nearest to the root of
\* the exact sample variance (n * sum of squares - square of the sum)
\* / (n * (n - 1)).
statistics_stdev(values) ==
    FlRoot(BigSub(BigMulSmall(BigSumSquares(values, 1, Len(values)),
                              Len(values), 0),
                  BigMul(FlOfInt(Sum(values)).m, FlOfInt(Sum(values)).m)),
           BigOfNat(Len(values) * (Len(values) - 1)), 0)

\* The value assigned to zscore_data from the unrounded z-score on.
PanelOfScore(state, historical_positions, mean, std, z_score) ==
    [z_score |-> FlRound(z_score, 2),
     interpretation |-> PanelInterpretationOfDouble(z_score).interpretation,
     color |-> PanelInterpretationOfDouble(z_score).color,
     mean |-> FlRound(mean, 0),
     std |-> FlRound(std, 0),
     current |-> historical_positions[Len(historical_positions)],
     trader_type |-> state.indicator_trader_type,
     data_points |-> Len(historical_positions)]

\* The value assigned to zscore_data from mean and std on.
PanelOfDoubles(state, historical_positions, mean, std) ==
    PanelOfScore(state, historical_positions, mean, std,
                 IF std.s > 0
                 THEN FlDiv(FlSub(FlOfInt(historical_positions[
                                              Len(historical_positions)]),
                                  mean), std)
                 ELSE FlZero)

\* The value _calculate_zscore assigns to zscore_data, from the fields of
\* the state it reads. With n positions, statistics.stdev is the root of
\* ScaledVariance / (n * (n - 1)), so the z-score is the quotient of
\* (n - 1) * ScaledDeviation and the root of
\* n * (n - 1) * ScaledVariance. For few and small positions whose z-score
\* is neither halfway between two hundredths nor a threshold of the
\* cascade, the result is computed on these integers.
_calculate_zscore(state) ==
    LET data_key == _get_trader_data_key(state.indicator_trader_type)
        all_positions ==
            [k \in DOMAIN state.chart_data |->
                IF data_key \in DOMAIN state.chart_data[k]
                THEN state.chart_data[k][data_key] ELSE 0]
        historical_positions ==
            ZoomedPositions(all_positions, state.zoom_level)
        n == Len(historical_positions)
    IN  IF n >= 2
        THEN LET current == historical_positions[n]
                 sv == ScaledVariance(historical_positions)
                 dev == (n - 1) * ScaledDeviation(current,
                                                  historical_positions)
                 var == n * (n - 1) * sv
                 text == IF sv > 0 THEN PanelInterpretation(dev, var)
                         ELSE PanelInterpretation(0, 0)
             IN  IF /\ ZSmall(current, historical_positions)
                    /\ \/ sv = 0
                       \/ /\ sv <= ZExactVar \div (n * (n - 1))
                          /\ PanelExact(dev, var)
                 THEN [z_score |-> IF sv > 0 THEN RoundZ(dev, var) ELSE 0,
                       interpretation |-> text.interpretation,
                       color |-> text.color,
                       mean |-> RoundEven(Sum(historical_positions), n),
                       std |-> RoundRoot(sv, n * (n - 1)),
                       current |-> current,
                       trader_type |-> state.indicator_trader_type,
                       data_points |-> n]
                 ELSE PanelOfDoubles(state, historical_positions,
                                     statistics_mean(historical_positions),
                                     statistics_stdev(historical_positions))
        ELSE [z_score |-> 0,
              interpretation |-> "Insufficient Data",
              color |-> "#94a3b8",
              mean |-> 0, std |-> 0, current |-> 0,
              trader_type |-> state.indicator_trader_type,
              data_points |-> n]

\* ------------------------------------------------------------------------
\* Derivation engine: calculate_percentile_rank
\* ------------------------------------------------------------------------
\* Python's values[-n:] if len(values) >= n else values, for any integer
\* n: values[-0:] is the whole list, and for n < 0 the slice leaves out the
\* first -n values.
RecentData(values, n) ==
    IF n > 0 THEN LastN(values, n) ELSE SubSeq(values, 1 - n, Len(values))

\* The outcome for an empty window, which a negative lookback of the
\* length of the history or more leaves: the division by len(recent_data)
\* raises ZeroDivisionError and the call returns nothing.
RankZeroDivision ==
    [percentile |-> 0, rank_label |-> "ZeroDivisionError",
     historical_min |-> 0, historical_max |-> 0, historical_median |-> 0]

\* The result for an empty history.
RankEmpty ==
    [percentile |-> 500, rank_label |-> "Neutral",
     historical_min |-> 0, historical_max |-> 0, historical_median |-> 0]


\* The label cascade on the rounded percentile, in tenths.
RankLabel(percentile) ==
    IF percentile >= 900 THEN "Extremely High"
    ELSE IF percentile >= 750 THEN "High"
    ELSE IF percentile >= 500 THEN "Above Average"
    ELSE IF percentile >= 250 THEN "Below Average"
    ELSE IF percentile >= 100 THEN "Low"
    ELSE "Extremely Low"

\* The k-th smallest value of a non-empty list.
KthSmallest(values, k) ==
    CHOOSE v \in {values[i] : i \in DOMAIN values} :
        /\ Cardinality({i \in DOMAIN values : values[i] < v}) < k
        /\ Cardinality({i \in DOMAIN values : values[i] <= v}) >= k

\* round(np.median(values), 0): the middle value, or the mean of the two
\* middle values rounded with a tie to the even integer.
RoundedMedian(values) ==
    LET n == Len(values)
    IN  IF n % 2 = 1 THEN KthSmallest(values, (n + 1) \div 2)
        ELSE RoundEven(KthSmallest(values, n \div 2)
                           + KthSmallest(values, n \div 2 + 1), 2)

calculate_percentile_rank(current_value, historical_values, lookback_months) ==
    IF historical_values = <<>> THEN RankEmpty
    ELSE IF RecentData(historical_values, lookback_months * 4) = <<>>
    THEN RankZeroDivision
    ELSE LET lookback_weeks == lookback_months * 4
             recent_data == RecentData(historical_values, lookback_weeks)
             count_below == CountBelow(recent_data, current_value)
             percentile == RoundPct(count_below, Len(recent_data))
         IN  [percentile |-> percentile,
              rank_label |-> RankLabel(percentile),
              historical_min |-> KthSmallest(recent_data, 1),
              historical_max |-> KthSmallest(recent_data, Len(recent_data)),
              historical_median |-> RoundedMedian(recent_data)]

\* ------------------------------------------------------------------------
\* State machine of the derivation engine: one call of one function
\* ------------------------------------------------------------------------
MaxZVal == 2       \* historical positions of a z-score call are 0..MaxZVal
MaxZLen == 4       \* a z-score call has at most MaxZLen historical positions

\* The lists over a set of values with at most n elements.
SeqsUpTo(values, n) == UNION {[1..k -> values] : k \in 0..n}

\* The default of the window parameter.
window_default == 52

\* The windows a call is made with.
ZWindows == {-2, -1, 0, 1, 2, 3, window_default}

\* Calls whose quotient lies halfway between two hundredths: -2.375 and
\* 1.125 among them.
ZHalfway ==
    [fn : {"calculate_rolling_zscore"},
     current_position : {-3, 3},
     historical_positions : {<<0, 0, 0, 0, 4>>, <<0, 0, 2, 0, 4>>},
     window : {window_default}]

\* The calls of calculate_rolling_zscore.
ZInputs ==
    [fn : {"calculate_rolling_zscore"},
     current_position : -2..(MaxZVal + 2),
     historical_positions : SeqsUpTo(0..MaxZVal, MaxZLen),
     window : ZWindows]
        \cup ZHalfway

MaxStep == 3       \* week-to-week changes of a position series are -1..MaxStep
MaxPoints == 5     \* a position series has at most MaxPoints points

\* The default of the smoothing_window parameter.
smoothing_window_default == 4

\* The smoothing windows a call is made with.
SmoothingWindows == {2, smoothing_window_default}

\* The series that starts at 100 and changes by the given steps.
PositionsFrom(steps) ==
    [i \in 1..(Len(steps) + 1) |-> 100 + Sum(SubSeq(steps, 1, i - 1))]

\* The position series of the calls: the empty one, the series of bounded
\* steps, and a series of increasing gaps.
PositionSeries ==
    {<<>>, <<100, 110, 125, 145>>}
        \cup {PositionsFrom(steps) :
                steps \in SeqsUpTo(-1..MaxStep, MaxPoints - 1)}

\* The calls of calculate_positioning_velocity.
VelocityInputs ==
    [fn : {"calculate_positioning_velocity"},
     positions : PositionSeries,
     smoothing_window : SmoothingWindows]

MaxTile == 3       \* a chart series repeats a pattern of at most MaxTile values
MaxSeries == 26    \* a chart series has at most MaxSeries points

\* The values of a pattern.
TileValues == {0, 1, 2}

\* The series of n values that repeats a pattern.
Tiled(tile, n) == [i \in 1..n |-> tile[((i - 1) % Len(tile)) + 1]]

\* The position series of the charts: patterns repeated up to MaxSeries
\* points, and a series of four rising values followed by one between them.
ChartSeries ==
    {<<10, 20, 30, 40, 25>>}
        \cup {Tiled(tile, n) :
                tile \in SeqsUpTo(TileValues, MaxTile) \ {<<>>},
                n \in {0, 7, MaxSeries}}

\* The labels of the points of a report type.
ChartLabels(report_type) ==
    LET m == REPORT_FIELD_MAPPINGS[report_type]
    IN  {m[l] : l \in DOMAIN m \cap {"trader1_label", "trader2_label",
                                     "trader3_label", "trader4_label"}}

\* The chart of a report type whose speculator category has the given
\* series; the other categories have the opposite positions.
ChartOf(report_type, series) ==
    [i \in DOMAIN series |->
        [key \in {"date", "week"} \cup ChartLabels(report_type) |->
            IF key = "date" THEN i
            ELSE IF key = "week" THEN i - 1
            ELSE IF key \in {"non_commercial", "managed_money",
                             "leveraged_funds"}
            THEN series[i]
            ELSE -series[i]]]

\* The report type of the state with the report type the chart was fetched
\* under: the same one, or an earlier one.
ChartReportTypes ==
    {<<t, t>> : t \in {"legacy", "disaggregated", "tff"}}
        \cup {<<"tff", "legacy">>}

\* The states _calculate_current_percentile_history is called in.
PercentileHistoryInputs ==
    {[fn |-> "_calculate_current_percentile_history",
      chart_data |-> ChartOf(t[2], series),
      report_type |-> t[1],
      percentile_trader_type |-> trader_type,
      percentile_lookback |-> lookback] :
        t \in ChartReportTypes, series \in ChartSeries,
        trader_type \in {"Non-Commercial", "Commercial", "all"},
        lookback \in {"6m", "1y", "max"}}

MaxRankLen == 5    \* a percentile-rank call has at most MaxRankLen values

\* The default of the lookback_months parameter.
lookback_months_default == 12

\* The lookbacks a percentile-rank call is made with.
RankLookbacks == {-1, 0, 1, lookback_months_default}

\* The calls of calculate_percentile_rank.
RankInputs ==
    [fn : {"calculate_percentile_rank"},
     current_value : -1..3,
     historical_values : SeqsUpTo({0, 1, 2}, MaxRankLen),
     lookback_months : RankLookbacks]

DeriveInputs ==
    ZInputs \cup VelocityInputs \cup PercentileHistoryInputs \cup RankInputs

\* A call of the derivation engine is about to be made.
InitDerive ==
    /\ cache = [p \in CacheFiles |-> Absent]
    /\ now = 0
    /\ call = [symbol |-> <<>>, report_type |-> "legacy", op |-> "pending"]
    /\ latestIn = <<>>
    /\ histIn = <<>>
    /\ saveIn = "none"
    /\ queries = <<>>
    /\ ret = NoRet
    /\ dash = StateDefaults
    /\ data \in DeriveInputs

\* calculate_rolling_zscore(current_position, historical_positions, window)
\* runs and returns.
RollingZscore ==
    /\ call.op = "pending"
    /\ data.fn = "calculate_rolling_zscore"
    /\ ret' = [exc |-> FALSE,
               value |-> calculate_rolling_zscore(data.current_position,
                                                  data.historical_positions,
                                                  data.window)]
    /\ call' = [call EXCEPT !.op = "calculate_rolling_zscore"]
    /\ UNCHANGED <<cache, now, latestIn, histIn, saveIn, queries, dash, data>>

\* calculate_positioning_velocity(positions, smoothing_window) runs and
\* returns.
PositioningVelocity ==
    /\ call.op = "pending"
    /\ data.fn = "calculate_positioning_velocity"
    /\ ret' = [exc |-> FALSE,
               value |-> calculate_positioning_velocity(
                             data.positions, data.smoothing_window)]
    /\ call' = [call EXCEPT !.op = "calculate_positioning_velocity"]
    /\ UNCHANGED <<cache, now, latestIn, histIn, saveIn, queries, dash, data>>

\* State._calculate_current_percentile_history() runs on the state.
CalculatePercentileHistory ==
    /\ call.op = "pending"
    /\ data.fn = "_calculate_current_percentile_history"
    /\ ret' = [exc |-> FALSE,
               value |-> _calculate_current_percentile_history(data)]
    /\ call' = [call EXCEPT !.op = "_calculate_current_percentile_history"]
    /\ UNCHANGED <<cache, now, latestIn, histIn, saveIn, queries, dash, data>>

\* calculate_percentile_rank(current_value, historical_values,
\* lookback_months) runs and returns.
PercentileRank ==
    /\ call.op = "pending"
    /\ data.fn = "calculate_percentile_rank"
    /\ \E value \in {calculate_percentile_rank(data.current_value,
                                               data.historical_values,
                                               data.lookback_months)} :
         ret' = [exc |-> value = RankZeroDivision, value |-> value]
    /\ call' = [call EXCEPT !.op = "calculate_percentile_rank"]
    /\ UNCHANGED <<cache, now, latestIn, histIn, saveIn, queries, dash, data>>

NextDerive ==
    \/ RollingZscore
    \/ PositioningVelocity
    \/ CalculatePercentileHistory
    \/ PercentileRank

SpecDerive == InitDerive /\ [][NextDerive]_vars

\* ------------------------------------------------------------------------
\* Dashboard: State._load_percentile_data
\* ------------------------------------------------------------------------
\* The assets the model ranks: three entries of ALL_ASSETS, in its order.
ALL_ASSETS ==
    <<[symbol |-> <<"CL">>, name |-> "Crude Oil WTI", category |-> "Energy"],
      [symbol |-> <<"NG">>, name |-> "Natural Gas", category |-> "Energy"],
      [symbol |-> <<"ES">>, name |-> "E-Mini S&P 500",
       category |-> "Equities"]>>

\* The account of the fetch_cot_data calls made so far, after one more:
\* r is what the call returned, answer what the remote source answered (the
\* empty answer if it was not asked) and outcome how the cache write ended
\* if there was one.
AfterFetch(done, r, answer, outcome) ==
    [cache |-> r.cache,
     latest |-> Append(done.latest, r),
     queries |-> done.queries \o r.queries,
     answers |-> Append(done.answers, answer),
     saves |-> Append(done.saves, IF r.wrote THEN outcome ELSE "none")]

\* fetch_cot_data for the assets from the i-th on, one after the other on
\* the shared cache: resps[i] is what the remote source answers for the
\* i-th asset if it is asked, outcomes[i] how the cache write for it ends if
\* there is one. The result holds the cache the calls leave, what they
\* returned, the queries they sent, the answers they got and the outcomes
\* of the writes they made ("none" where nothing was written).
RECURSIVE FetchAssetsFrom(_, _, _, _, _)
FetchAssetsFrom(done, t, resps, outcomes, i) ==
    IF i > Len(ALL_ASSETS) THEN done
    ELSE FetchAssetsFrom(
             AfterFetch(done,
                        fetch_cot_data(done.cache, t, ALL_ASSETS[i].symbol,
                                       resps[i], outcomes[i]),
                        IF LatestQueriesRemote(done.cache, t,
                                               ALL_ASSETS[i].symbol)
                        THEN resps[i] ELSE <<>>,
                        outcomes[i]),
             t, resps, outcomes, i + 1)

FetchAssets(c, t, resps, outcomes) ==
    FetchAssetsFrom([cache |-> c, latest |-> <<>>, queries |-> <<>>,
                     answers |-> <<>>, saves |-> <<>>],
                    t, resps, outcomes, 1)

\* The net position of the selected trader type in a snapshot.
SelectedNet(report, percentile_trader_type) ==
    IF percentile_trader_type = "Non-Commercial"
    THEN report.non_commercial_net
    ELSE IF percentile_trader_type = "Commercial"
    THEN report.commercial_net
    ELSE report.non_reportable_net

\* Mutant: the percentile is not clamped.
Clamp_none(percentile) == percentile

\* max(0, min(100, percentile)), in tenths.
Clamp(percentile) ==
    IF percentile > 1000 THEN 1000
    ELSE IF percentile < 0 THEN 0 ELSE percentile

\* max(0, min(100, percentile)) of a double.
ClampDouble(percentile) ==
    IF FlLess(FlOfInt(100), percentile) THEN FlOfInt(100)
    ELSE IF FlLess(percentile, FlZero) THEN FlZero ELSE percentile

\* 50 + (net_pct * 2 * lookback_factor), with
\* lookback_factor = 12 / lookback_months.
PercentileDouble(net_pct, lookback_months) ==
    FlAdd(FlOfInt(50),
          FlMul(FlMul(net_pct, FlOfInt(2)),
                FlDiv(FlOfInt(12), FlOfInt(lookback_months))))

\* The largest open interest and net position for which the percentile is
\* computed on integers.
CrossExactOi == 50000
CrossExactNet == 40000

\* round(percentile, 1) in tenths, of the percentile
\* 50 + net_pct * 2 * (12 / lookback_months) after clamping, with
\* net_pct = net / oi * 100 for oi > 0 and 0 otherwise. The code computes
\* the percentile in doubles, which decide the rounding of a value halfway
\* between two tenths; any other value of a small net and open interest is
\* further from the halfway values than the double is from it, and its
\* nearest tenth is computed on the integers.
CrossPercentile(net, oi, lookback_months) ==
    IF oi <= 0 THEN 500
    ELSE IF /\ oi <= CrossExactOi
            /\ -CrossExactNet <= net /\ net <= CrossExactNet
            /\ 2 * ((500 * oi * lookback_months + 24000 * net)
                        % (oi * lookback_months)) # oi * lookback_months
    THEN Clamp(RoundEven(500 * oi * lookback_months + 24000 * net,
                         oi * lookback_months))
    ELSE FlRound(ClampDouble(PercentileDouble(PctDouble(net, oi),
                                              lookback_months)), 1)

\* The largest open interest and net position for which net_pct is
\* computed on integers.
NetPctExact == 100000

\* round(net_pct, 2) in hundredths, with net_pct = net / oi * 100, for
\* oi > 0: as for RoundPct, the double decides the rounding of a value
\* halfway between two hundredths.
NetPct(net, oi) ==
    IF /\ -NetPctExact <= net /\ net <= NetPctExact /\ oi <= NetPctExact
       /\ (20000 * net) % (2 * oi) # oi
    THEN (20000 * net + oi) \div (2 * oi)
    ELSE FlRound(PctDouble(net, oi), 2)

\* The result entry of an asset; net_pct is held in hundredths.
PercentileEntry(asset, report, state) ==
    LET net == SelectedNet(report, state.percentile_trader_type)
        oi == report.open_interest
    IN  [symbol |-> asset.symbol,
         asset_name |-> asset.name,
         category |-> asset.category,
         net_position |-> net,
         net_pct |-> IF oi > 0 THEN NetPct(net, oi) ELSE 0,
         percentile |->
             CrossPercentile(net, oi,
                             LookbackMonths(state.percentile_lookback)),
         lookback |-> state.percentile_lookback]

\* sorted(entries, key=percentile, reverse=True): entries of equal
\* percentile keep their order.
RECURSIVE SortedByPercentile(_)
SortedByPercentile(entries) ==
    IF entries = <<>> THEN <<>>
    ELSE LET n == Len(entries)
             init == SortedByPercentile(SubSeq(entries, 1, n - 1))
             x == entries[n]
             before == SelectSeq(init, LAMBDA e : e.percentile >= x.percentile)
             after == SelectSeq(init, LAMBDA e : e.percentile < x.percentile)
         IN  before \o <<x>> \o after

\* The fields _load_percentile_data assigns, from the state fields it reads
\* and the outcomes of fetch_cot_data for the assets; an asset whose
\* processing raises is skipped.
_load_percentile_data(state, latest) ==
    LET kept == SelectSeq([i \in DOMAIN ALL_ASSETS |-> i],
                          LAMBDA i : ~latest[i].exc)
        all_results ==
            [k \in DOMAIN kept |->
                PercentileEntry(ALL_ASSETS[kept[k]], latest[kept[k]].report,
                                state)]
        sorted_results == SortedByPercentile(all_results)
        count == IF Len(sorted_results) \div 20 > 1
                 THEN Len(sorted_results) \div 20 ELSE 1
    IN  [top_bullish |->
             SubSeq(sorted_results, 1, Min(count + 2, Len(sorted_results))),
         bottom_bearish |-> LastN(sorted_results, count + 2),
         percentile_data |-> sorted_results]

\* ------------------------------------------------------------------------
\* State machine of the cross-sectional ranking: one _load_percentile_data
\* ------------------------------------------------------------------------
\* The largest long position of a ranked row.
MaxLong == 2

\* A Legacy row with the given non-commercial long positions and open
\* interest: its non-commercial net is long - 1, its commercial net
\* 1 - long, its non-reportable net long.
RankRow(long, oi) ==
    [f |-> [name \in LatestFields |->
              CASE name = "noncomm_positions_long_all" -> Num(long)
                [] name = "noncomm_positions_short_all" -> Num(1)
                [] name = "comm_positions_long_all" -> Num(1)
                [] name = "comm_positions_short_all" -> Num(long)
                [] name = "nonrept_positions_long_all" -> Num(long)
                [] name = "nonrept_positions_short_all" -> Num(0)
                [] name = "open_interest_all" -> Num(oi)
                [] OTHER -> Num(0)],
     report_date_as_yyyy_mm_dd |-> 1]

\* What the remote source answers to the queries for an asset: the first
\* name fails, or it yields no row or one row and the other names no row.
RankResponses(symbol) ==
    LET names == RegistryGet(SYMBOL_TO_CONTRACT, symbol)
        first == {Rows(<<>>)}
                    \cup {Rows(<<RankRow(long, oi)>>) :
                            long \in 0..MaxLong, oi \in {-3, 3, 30, 160}}
    IN  {<<Failure>>}
            \cup {[i \in DOMAIN names |-> IF i = 1 THEN r ELSE Rows(<<>>)] :
                    r \in first}

\* The answers of the remote source for the assets from the i-th on.
RECURSIVE RankRemotes(_)
RankRemotes(i) ==
    IF i > Len(ALL_ASSETS) THEN {<<>>}
    ELSE {<<r>> \o rest : r \in RankResponses(ALL_ASSETS[i].symbol),
                          rest \in RankRemotes(i + 1)}

\* How the cache writes for the three assets end: all succeed, or one
\* succeeds, one fails at open() and one fails while dumping.
RankSaves ==
    {<<"ok", "ok", "ok">>, <<"ok", "open_fails", "dump_fails">>,
     <<"dump_fails", "ok", "open_fails">>, <<"open_fails", "dump_fails", "ok">>}

\* The states _load_percentile_data is called in, with the answers of the
\* remote source.
RankCalls(resps) ==
    [fn : {"_load_percentile_data"},
     resps : resps,
     percentile_trader_type : {"Non-Commercial", "Commercial",
                               "Non-Reportable"},
     percentile_lookback : {"6m", "1y"}]

\* The cache is empty and the percentile view is about to be loaded.
InitRank ==
    /\ cache = [p \in {ALL_ASSETS[i].symbol : i \in DOMAIN ALL_ASSETS} |->
                   Absent]
    /\ now = 0
    /\ call = [symbol |-> <<>>, report_type |-> "legacy", op |-> "pending"]
    /\ latestIn = <<>>
    /\ histIn = <<>>
    /\ saveIn = "none"
    /\ queries = <<>>
    /\ ret = NoRet
    /\ dash = StateDefaults
    /\ data \in RankCalls(RankRemotes(1))

\* State._load_percentile_data() runs: the snapshots of all assets are
\* fetched, each written to the cache where the fetch got one, and ranked.
LoadPercentileData ==
    /\ call.op = "pending"
    /\ data.fn = "_load_percentile_data"
    /\ \E outcomes \in RankSaves :
         \E fetched \in {FetchAssets(cache, now, data.resps, outcomes)} :
          /\ cache' = fetched.cache
          /\ latestIn' = fetched.answers
          /\ saveIn' = fetched.saves
          /\ queries' = fetched.queries
          /\ ret' = [exc |-> FALSE,
                     value |-> _load_percentile_data(data, fetched.latest),
                     latest |-> fetched.latest]
    /\ call' = [call EXCEPT !.op = "_load_percentile_data"]
    /\ UNCHANGED <<now, histIn, dash, data>>

NextRank == LoadPercentileData

SpecRank == InitRank /\ [][NextRank]_vars

\* ------------------------------------------------------------------------
\* State machine of two interleaved fetch_latest_report calls for one
\* symbol, one file operation per step
\* ------------------------------------------------------------------------
RaceCalls == {1, 2}
RaceSymbol == <<"ES">>

\* The open interest of the rows the remote source serves to the calls.
RaceOpenInterest == {3, 30}

DigitChars == <<"0", "1", "2", "3", "4", "5", "6", "7", "8", "9">>

\* The decimal digits of a natural number.
RECURSIVE Digits(_)
Digits(n) ==
    IF n < 10 THEN <<DigitChars[n + 1]>>
    ELSE Digits(n \div 10) \o <<DigitChars[(n % 10) + 1]>>

\* json.dump(data, f), as the characters that differ among the snapshots of
\* this model: the braces and the digits of the open interest.
Encode(report) == <<"{">> \o Digits(report.open_interest) \o <<"}">>

\* The snapshots the calls of this model build.
RaceSnapshots ==
    {ProcessedReport(RankRow(1, oi)) : oi \in RaceOpenInterest}

\* json.load(f): the snapshot when the file holds one complete document and
\* nothing else, a failure otherwise.
Decode(bytes) ==
    IF \E report \in RaceSnapshots : Encode(report) = bytes
    THEN [none |-> FALSE,
          report |-> CHOOSE report \in RaceSnapshots : Encode(report) = bytes]
    ELSE [none |-> TRUE, report |-> _get_empty_report]

\* f.write through a descriptor opened at position 0: the document replaces
\* the first characters of the file; characters beyond it stay.
WriteAtStart(bytes, doc) ==
    doc \o SubSeq(bytes, Len(doc) + 1, Len(bytes))

\* The file is absent and both calls are about to run; the remote source
\* serves each of them a well-formed row.
InitRace ==
    /\ cache = [exists |-> FALSE, fresh |-> FALSE, bytes |-> <<>>]
    /\ now = 0
    /\ call = [symbol |-> RaceSymbol, report_type |-> "legacy",
               op |-> "interleaved"]
    /\ latestIn \in [RaceCalls -> {RankRow(1, oi) : oi \in RaceOpenInterest}]
    /\ histIn = <<>>
    /\ saveIn = 0
    /\ queries = <<>>
    /\ ret = NoRet
    /\ dash = StateDefaults
    /\ data = [p \in RaceCalls |->
                 [pc |-> "is_cache_valid", report |-> _get_empty_report,
                  from |-> "none"]]

\* _is_cache_valid(symbol) in call p: os.path.exists and the age test.
IsCacheValid(p) ==
    /\ data[p].pc = "is_cache_valid"
    /\ data' = [data EXCEPT ![p].pc =
                   IF cache.exists /\ cache.fresh THEN "load" ELSE "query"]
    /\ UNCHANGED <<cache, now, call, latestIn, histIn, saveIn, queries, ret,
                   dash>>

\* _load_from_cache(symbol) in call p: the call returns what it parsed, or
\* goes on to the remote source when the parse failed.
LoadFromCache(p) ==
    /\ data[p].pc = "load"
    /\ LET cached == Decode(cache.bytes)
       IN  data' = [data EXCEPT ![p] =
                       IF cached.none THEN [@ EXCEPT !.pc = "query"]
                       ELSE [pc |-> "returned", report |-> cached.report,
                             from |-> "cache"]]
    /\ UNCHANGED <<cache, now, call, latestIn, histIn, saveIn, queries, ret,
                   dash>>

\* The query of call p and the processing of its row.
QueryRemote(p) ==
    /\ data[p].pc = "query"
    /\ data' = [data EXCEPT ![p] =
                   [pc |-> "open", report |-> ProcessedReport(latestIn[p]),
                    from |-> "remote"]]
    /\ queries' = Append(queries, LatestQuery(
                      RegistryGet(SYMBOL_TO_CONTRACT, RaceSymbol)[1]))
    /\ UNCHANGED <<cache, now, call, latestIn, histIn, saveIn, ret, dash>>

\* open(cache_path, 'w') in call p: the file is created or truncated.
OpenForWrite(p) ==
    /\ data[p].pc = "open"
    /\ cache' = [exists |-> TRUE, fresh |-> TRUE, bytes |-> <<>>]
    /\ data' = [data EXCEPT ![p].pc = "dump"]
    /\ UNCHANGED <<now, call, latestIn, histIn, saveIn, queries, ret, dash>>

\* json.dump and the close of the file in call p, then the return of the
\* snapshot.
DumpAndReturn(p) ==
    /\ data[p].pc = "dump"
    /\ cache' = [cache EXCEPT
                    !.bytes = WriteAtStart(@, Encode(data[p].report))]
    /\ saveIn' = p
    /\ data' = [data EXCEPT ![p].pc = "returned"]
    /\ ret' = [exc |-> FALSE, report |-> data[p].report, series |-> <<>>]
    /\ UNCHANGED <<now, call, latestIn, histIn, queries, dash>>

NextRace ==
    \E p \in RaceCalls :
        \/ IsCacheValid(p)
        \/ LoadFromCache(p)
        \/ QueryRemote(p)
        \/ OpenForWrite(p)
        \/ DumpAndReturn(p)

SpecRace == InitRace /\ [][NextRace]_vars

\* ------------------------------------------------------------------------
\* The event handlers of the dashboard state
\* ------------------------------------------------------------------------
\* The remote source and the file system as a handler meets them: the
\* answers to the latest queries of a symbol (latest), the outcomes of a
\* cache write (saves), what the source holds for the chart of a symbol and
\* report type (charts), and the answers to the latest queries of
\* _load_percentile_data (ranks) with the outcomes of its cache writes, one
\* per asset (rank_saves).
DashEnv ==
    [latest |-> DashLatestInputs, saves |-> SaveOutcomes,
     charts |-> HistInputsSmall, ranks |-> {<<>>}, rank_saves |-> {<<>>}]

\* The state after _calculate_current_percentile_history().
WithPercentileHistory(state) ==
    LET r == _calculate_current_percentile_history(state)
    IN  [state EXCEPT
            !.percentile_history = r.percentile_history,
            !.current_percentile = r.current_percentile,
            !.percentile_interpretation = r.percentile_interpretation]

\* The state after _recalculate_indicators(). The velocity panel, which no
\* event of the model opens, is left out.
_recalculate_indicators(state) ==
    IF state.show_zscore_panel
    THEN [state EXCEPT !.zscore_data = _calculate_zscore(state)]
    ELSE state

\* The body of a handler from its call of _update_cot_data on: state is the
\* dashboard state after the handler's own assignments, op its name, and
\* percentile tells whether the handler goes on to call
\* _calculate_current_percentile_history.
UpdateCotData(state, op, env, percentile) ==
    LET symbol == state.selected_symbol
        report_type == state.report_type
    IN  \E resp \in (IF LatestQueriesRemote(cache, now, symbol)
                     THEN env.latest[symbol] ELSE {<<>>}) :
          \E outcome \in (IF LatestQueriesRemote(cache, now, symbol)
                          THEN env.saves \cup {"none"} ELSE {"none"}) :
            \E r \in {fetch_cot_data(cache, now, symbol, resp,
                        IF outcome = "none" THEN "ok" ELSE outcome)} :
              /\ r.wrote = (outcome # "none")
              /\ \E remote \in env.charts[symbol][report_type] :
                  \E h \in {fetch_chart_data(symbol, report_type, remote)} :
                    /\ dash' = IF percentile
                               THEN WithPercentileHistory(
                                        _update_cot_data(state, r, h))
                               ELSE _update_cot_data(state, r, h)
                    /\ cache' = r.cache
                    /\ call' = [symbol |-> symbol, report_type |-> report_type,
                                op |-> op]
                    /\ latestIn' = resp
                    /\ histIn' = remote
                    /\ saveIn' = outcome
                    /\ queries' = r.queries \o h.queries
                    /\ ret' = [exc |-> r.exc \/ h.exc, report |-> r.report,
                               series |-> h.series]
                    /\ UNCHANGED <<now, data>>

\* The end of a handler that fetches nothing: state is the dashboard state
\* it leaves.
HandlerDone(state, op) ==
    /\ dash' = state
    /\ call' = [symbol |-> state.selected_symbol,
                report_type |-> state.report_type, op |-> op]
    /\ latestIn' = <<>>
    /\ histIn' = <<>>
    /\ saveIn' = "none"
    /\ queries' = <<>>
    /\ ret' = NoRet
    /\ UNCHANGED <<cache, now, data>>

\* The events of one session are processed one at a time: while
\* refresh_data is suspended at its yield, no other handler of the session
\* starts.
Idle == ~dash.is_refreshing

\* State.init_data, on page load.
init_data(env) == Idle /\ UpdateCotData(dash, "init_data", env, TRUE)

\* State.select_asset(category, symbol, name).
select_asset(symbol, env) ==
    /\ Idle
    /\ UpdateCotData([dash EXCEPT !.selected_symbol = symbol], "select_asset",
                     env, TRUE)

\* State.select_from_search(symbol): select_asset for the asset of
\* ALL_ASSETS with that symbol, if there is one, and close_search_modal,
\* whose fields the model does not hold.
select_from_search(symbol, env) ==
    /\ Idle
    /\ IF \E i \in DOMAIN ALL_ASSETS : ALL_ASSETS[i].symbol = symbol
       THEN UpdateCotData([dash EXCEPT !.selected_symbol = symbol],
                          "select_from_search", env, TRUE)
       ELSE HandlerDone(dash, "select_from_search")

\* State.set_report_type(report_type).
set_report_type(report_type, env) ==
    /\ Idle
    /\ UpdateCotData([dash EXCEPT !.report_type = report_type,
                                  !.selected_trader = "all"],
                     "set_report_type", env, TRUE)

\* State.select_trader(trader).
select_trader(trader) ==
    /\ Idle
    /\ HandlerDone([dash EXCEPT !.selected_trader = trader], "select_trader")

\* State.refresh_data up to its yield: is_refreshing is set and control goes
\* back to the event loop; nothing is fetched yet.
refresh_data ==
    /\ Idle
    /\ dash' = [dash EXCEPT !.is_refreshing = TRUE]
    /\ UNCHANGED <<cache, now, call, latestIn, histIn, saveIn, queries, ret,
                   data>>

\* State.refresh_data from its yield on: _update_cot_data(), then
\* is_refreshing is cleared. _update_cot_data does not read is_refreshing and
\* lets no exception out.
refresh_data_resume(env) ==
    /\ dash.is_refreshing
    /\ UpdateCotData([dash EXCEPT !.is_refreshing = FALSE], "refresh_data",
                     env, FALSE)

\* _update_cot_data() in another session, as this session meets it: the
\* fetch_cot_data of that session acts on the shared cache directory.
OtherSessionUpdate(symbol, env) ==
    \E resp \in (IF LatestQueriesRemote(cache, now, symbol)
                 THEN env.latest[symbol] ELSE {<<>>}) :
      \E outcome \in (IF LatestQueriesRemote(cache, now, symbol)
                      THEN env.saves \cup {"none"} ELSE {"none"}) :
        \E r \in {fetch_cot_data(cache, now, symbol, resp,
                    IF outcome = "none" THEN "ok" ELSE outcome)} :
            /\ r.wrote = (outcome # "none")
            /\ cache' = r.cache
            /\ cache' # cache
            /\ UNCHANGED <<now, call, latestIn, histIn, saveIn, queries, ret,
                           dash, data>>

\* The body shared by open_percentile_modal, set_percentile_lookback and
\* set_percentile_trader_type after their assignment:
\* _load_percentile_data() and _calculate_current_percentile_history().
\* The fetch_cot_data calls of _load_percentile_data query the remote
\* source and write the cache like those of _update_cot_data; no chart is
\* fetched.
ReloadPercentiles(state, op, env) ==
    /\ Idle
    /\ \E resps \in env.ranks, outcomes \in env.rank_saves :
         \E fetched \in {FetchAssets(cache, now, resps, outcomes)} :
           \E loaded \in {_load_percentile_data(state, fetched.latest)} :
             /\ dash' = WithPercentileHistory(
                            [state EXCEPT
                                !.top_bullish = loaded.top_bullish,
                                !.bottom_bearish = loaded.bottom_bearish,
                                !.percentile_data = loaded.percentile_data])
             /\ cache' = fetched.cache
             /\ call' = [symbol |-> state.selected_symbol,
                         report_type |-> state.report_type, op |-> op]
             /\ latestIn' = fetched.answers
             /\ histIn' = <<>>
             /\ saveIn' = fetched.saves
             /\ queries' = fetched.queries
             /\ ret' = NoRet
             /\ UNCHANGED <<now, data>>

\* State.open_percentile_modal. Its last assignment, of
\* show_percentile_modal, is to a field the model does not hold.
open_percentile_modal(env) ==
    ReloadPercentiles(dash, "open_percentile_modal", env)

\* State.set_percentile_lookback(lookback).
set_percentile_lookback(lookback, env) ==
    ReloadPercentiles([dash EXCEPT !.percentile_lookback = lookback],
                      "set_percentile_lookback", env)

\* State.set_percentile_trader_type(trader_type).
set_percentile_trader_type(trader_type, env) ==
    ReloadPercentiles([dash EXCEPT !.percentile_trader_type = trader_type],
                      "set_percentile_trader_type", env)

\* State.set_chart_data_view(view).
set_chart_data_view(view) ==
    LET state == [dash EXCEPT !.chart_data_view = view]
    IN  /\ Idle
        /\ HandlerDone(IF view = "percentile"
                       THEN WithPercentileHistory(state) ELSE state,
                       "set_chart_data_view")

\* State.toggle_zscore.
toggle_zscore ==
    LET state == [dash EXCEPT !.show_zscore_panel = ~@]
    IN  /\ Idle
        /\ HandlerDone(IF state.show_zscore_panel
                       THEN [state EXCEPT
                                !.zscore_data = _calculate_zscore(state)]
                       ELSE state,
                       "toggle_zscore")

\* State.set_chart_view_mode(mode): the assignment is to chart_view_mode,
\* which nothing the model holds is computed from, and then
\* _recalculate_indicators().
set_chart_view_mode ==
    /\ Idle
    /\ HandlerDone(_recalculate_indicators(dash), "set_chart_view_mode")

\* State.set_indicator_trader_type(trader_type).
set_indicator_trader_type(trader_type) ==
    /\ Idle
    /\ HandlerDone(_recalculate_indicators(
                       [dash EXCEPT !.indicator_trader_type = trader_type]),
                   "set_indicator_trader_type")

\* The zoom events.
zoom_in ==
    /\ Idle
    /\ HandlerDone(IF dash.zoom_level > 25
                   THEN [dash EXCEPT !.zoom_level = @ - 25] ELSE dash,
                   "zoom_in")

zoom_out ==
    /\ Idle
    /\ HandlerDone(IF dash.zoom_level < 100
                   THEN [dash EXCEPT !.zoom_level = @ + 25] ELSE dash,
                   "zoom_out")

reset_zoom ==
    Idle /\ HandlerDone([dash EXCEPT !.zoom_level = 100], "reset_zoom")

set_zoom_1y ==
    Idle /\ HandlerDone([dash EXCEPT !.zoom_level = 25], "set_zoom_1y")

set_zoom_2y ==
    Idle /\ HandlerDone([dash EXCEPT !.zoom_level = 50], "set_zoom_2y")

set_zoom_3y ==
    Idle /\ HandlerDone([dash EXCEPT !.zoom_level = 75], "set_zoom_3y")

set_zoom_all ==
    Idle /\ HandlerDone([dash EXCEPT !.zoom_level = 100], "set_zoom_all")

\* ------------------------------------------------------------------------
\* State machine of the data handlers, the cache and the clock
\* ------------------------------------------------------------------------
NextDash ==
    \/ init_data(DashEnv)
    \/ \E symbol \in DashSymbols : select_asset(symbol, DashEnv)
    \/ \E symbol \in DashSymbols : select_from_search(symbol, DashEnv)
    \/ \E report_type \in DashReportTypes : set_report_type(report_type, DashEnv)
    \/ \E trader \in DashTraders : select_trader(trader)
    \/ refresh_data
    \/ refresh_data_resume(DashEnv)
    \/ \E symbol \in DashSymbols : OtherSessionUpdate(symbol, DashEnv)
    \/ Tick

SpecDash == Init /\ [][NextDash]_vars

\* ------------------------------------------------------------------------
\* State machines of the percentile view and of the z-score panel
\* ------------------------------------------------------------------------
\* The chart row of a date whose first trader category has the net
\* position net.
ViewRow(report_type, d, net) == HistRow(report_type, d, Num(net + 1))

\* What the remote source holds for the first contract name of a symbol:
\* nothing, one point, or one of two series of three points; or its first
\* request fails. It holds nothing for the other names.
ViewSources(report_type) ==
    {[rows |-> <<>>, failAt |-> 0],
     [rows |-> <<>>, failAt |-> 1],
     [rows |-> <<ViewRow(report_type, 1, 1)>>, failAt |-> 0],
     [rows |-> <<ViewRow(report_type, 1, 0), ViewRow(report_type, 2, 1),
                 ViewRow(report_type, 3, 3)>>, failAt |-> 0],
     [rows |-> <<ViewRow(report_type, 1, 3), ViewRow(report_type, 2, 1),
                 ViewRow(report_type, 3, 0)>>, failAt |-> 0]}

ViewReportTypes == {"legacy", "tff"}

ViewCharts ==
    [symbol \in DashSymbols |-> [report_type \in ViewReportTypes |->
        {[i \in DOMAIN HistContractNames(symbol, report_type) |->
             IF i = 1 THEN src ELSE EmptySource] :
         src \in ViewSources(report_type)}]]

\* The answers to the latest queries of _load_percentile_data: every first
\* query fails, or every asset has one row.
ViewRanks ==
    {[i \in DOMAIN ALL_ASSETS |-> <<Failure>>],
     [i \in DOMAIN ALL_ASSETS |->
        [k \in DOMAIN RegistryGet(SYMBOL_TO_CONTRACT, ALL_ASSETS[i].symbol) |->
            IF k = 1 THEN Rows(<<RankRow(i, 30)>>) ELSE Rows(<<>>)]]}

\* The remote source and the file system of the percentile view. The cache
\* writes of _load_percentile_data all succeed, or the first stops while
\* dumping and the second fails at open().
ViewEnv ==
    [latest |-> [symbol \in DashSymbols |->
                    IF RegistryGet(SYMBOL_TO_CONTRACT, symbol) = <<>>
                    THEN {<<>>}
                    ELSE {<<Failure>>, <<Rows(<<LatestRow(1, Num(1))>>)>>}],
     saves |-> {"ok"},
     charts |-> ViewCharts,
     ranks |-> ViewRanks,
     rank_saves |-> {<<"ok", "ok", "ok">>,
                     <<"dump_fails", "open_fails", "ok">>}]

\* The page is about to load: the state has its defaults, the cache is empty.
InitView ==
    /\ cache = [p \in CacheFiles \cup {_get_cache_path(ALL_ASSETS[i].symbol) :
                                         i \in DOMAIN ALL_ASSETS} |-> Absent]
    /\ now = 0
    /\ call = NoCall
    /\ latestIn = <<>>
    /\ histIn = <<>>
    /\ saveIn = "none"
    /\ queries = <<>>
    /\ ret = NoRet
    /\ dash = StateDefaults
    /\ data = NoRow

PageLoaded == call # NoCall

\* The events of the percentile view, after the page has loaded.
NextView ==
    \/ init_data(ViewEnv)
    \/ PageLoaded /\ \E symbol \in DashSymbols : select_asset(symbol, ViewEnv)
    \/ PageLoaded /\ \E symbol \in DashSymbols :
                        select_from_search(symbol, ViewEnv)
    \/ PageLoaded /\ \E report_type \in ViewReportTypes :
                        set_report_type(report_type, ViewEnv)
    \/ PageLoaded /\ refresh_data
    \/ refresh_data_resume(ViewEnv)
    \/ \E symbol \in DashSymbols : OtherSessionUpdate(symbol, ViewEnv)
    \/ PageLoaded /\ open_percentile_modal(ViewEnv)
    \/ PageLoaded /\ \E view \in {"position", "percentile"} :
                        set_chart_data_view(view)
    \/ PageLoaded /\ \E lookback \in {"6m", "1y"} :
                        set_percentile_lookback(lookback, ViewEnv)
    \/ PageLoaded /\ \E trader_type \in {"Non-Commercial", "Commercial"} :
                        set_percentile_trader_type(trader_type, ViewEnv)

SpecView == InitView /\ [][NextView]_vars

\* The remote source of the z-score panel model: the latest query is
\* answered with a row; the chart source holds nothing or a series of three
\* points, or fails.
PanelEnv ==
    [latest |-> [symbol \in DashSymbols |->
                    IF RegistryGet(SYMBOL_TO_CONTRACT, symbol) = <<>>
                    THEN {<<>>}
                    ELSE {<<Rows(<<LatestRow(1, Num(1))>>)>>}],
     saves |-> {"ok"},
     charts |-> [symbol \in DashSymbols |->
                    [report_type \in ViewReportTypes |->
                        {remote \in ViewCharts[symbol][report_type] :
                            Len(remote) > 0 => Len(remote[1].rows) # 1}]],
     ranks |-> {<<>>},
     rank_saves |-> {<<>>}]

\* The events of the z-score panel.
NextPanel ==
    \/ toggle_zscore
    \/ \E symbol \in DashSymbols : select_asset(symbol, PanelEnv)
    \/ \E symbol \in DashSymbols : select_from_search(symbol, PanelEnv)
    \/ \E report_type \in ViewReportTypes : set_report_type(report_type, PanelEnv)
    \/ refresh_data
    \/ refresh_data_resume(PanelEnv)
    \/ \E symbol \in DashSymbols : OtherSessionUpdate(symbol, PanelEnv)
    \/ \E trader_type \in {"Non-Commercial", "Commercial"} :
          set_indicator_trader_type(trader_type)
    \/ set_chart_view_mode
    \/ zoom_in
    \/ zoom_out
    \/ reset_zoom
    \/ set_zoom_1y
    \/ set_zoom_2y
    \/ set_zoom_3y
    \/ set_zoom_all

SpecPanel == InitView /\ [][NextPanel]_vars

\* ------------------------------------------------------------------------
\* Properties of fetch_latest_report and the cache (specification Spec)
\* ------------------------------------------------------------------------
\* The rows the queries of the last latest call returned, in collection order.
CollectedLatest == Concat([i \in DOMAIN latestIn |-> latestIn[i].rows])

\* A query of the last latest call failed.
LatestQueryFailed == \E i \in DOMAIN latestIn : latestIn[i].k = "fail"

\* The rows of the last latest call that carry the largest report date.
TopRows ==
    {r \in {CollectedLatest[i] : i \in DOMAIN CollectedLatest} :
        \A i \in DOMAIN CollectedLatest :
            CollectedLatest[i].report_date_as_yyyy_mm_dd
                <= r.report_date_as_yyyy_mm_dd}

\* A row has a field whose coercion raises.
RowRaises(r) == \E name \in DOMAIN r.f : r.f[name].k = "inf"

\* The cache entry a symbol's cache path names.
EntryOf(c, symbol) == c[_get_cache_path(symbol)]

\* A step of the model that is a call fetch_latest_report(symbol).
IsLatestStep(symbol) ==
    /\ call'.op = "latest"
    /\ call'.symbol = symbol
    /\ now' = now

\* C1: fetch_latest_report never raises; for a symbol that has contract
\* names, when a remote query fails or the processing of the selected row
\* fails, the call returns the empty snapshot (report_date "No Data
\* Available").
C1_LatestNeverRaises ==
    call.op = "latest" =>
        /\ ~ret.exc
        /\ (/\ RegistryGet(SYMBOL_TO_CONTRACT, call.symbol) # <<>>
            /\ queries # <<>>
            /\ \/ LatestQueryFailed
               \/ (TopRows # {} /\ \A r \in TopRows : RowRaises(r)))
           => (ret.report = _get_empty_report
               /\ ret.report.report_date.kind = "No Data Available")

\* C1 witness: the first contract name returned a row, the query of the
\* second failed, and the call returned the empty snapshot.
C1_Witness ==
    /\ call.op = "latest"
    /\ Len(latestIn) = 2
    /\ latestIn[1].k = "rows" /\ latestIn[1].rows # <<>>
    /\ latestIn[2].k = "fail"
    /\ ret.report = _get_empty_report

\* C3: when a valid (non-stale) cache entry exists for the symbol,
\* fetch_latest_report returns that entry and issues no remote query.
C3_ValidEntryServed ==
    [][\A symbol \in Symbols :
          (/\ IsLatestStep(symbol)
           /\ EntryOf(cache, symbol).state = "ok"
           /\ now - EntryOf(cache, symbol).mtime < max_age_hours)
          => (/\ ret'.report = EntryOf(cache, symbol).snap
              /\ ~ret'.exc
              /\ queries' = <<>>
              /\ latestIn' = <<>>)]_vars

\* C3 witness: a call was answered from a cache entry that holds a snapshot
\* built from a row, without a query.
C3_Witness ==
    /\ call.op = "latest"
    /\ queries = <<>>
    /\ ret.report # _get_empty_report
    /\ EntryOf(cache, call.symbol).state = "ok"
    /\ EntryOf(cache, call.symbol).snap = ret.report
    /\ now - EntryOf(cache, call.symbol).mtime = 12

\* C4: a cache entry whose age is 24 hours or more is treated as absent:
\* the call queries the remote source and returns what it returns without
\* the entry, the empty snapshot when a remote query fails, never the stale
\* content as such.
C4_StaleEntryAbsent ==
    [][\A symbol \in Symbols :
          (/\ IsLatestStep(symbol)
           /\ EntryOf(cache, symbol).state # "absent"
           /\ now - EntryOf(cache, symbol).mtime >= max_age_hours)
          => LET without == [cache EXCEPT ![_get_cache_path(symbol)] = Absent]
                 asif == fetch_latest_report(without, now, symbol, latestIn',
                                             saveIn')
             IN  /\ ret'.report = asif.report
                 /\ queries' = asif.queries
                 /\ RegistryGet(SYMBOL_TO_CONTRACT, symbol) # <<>>
                        => queries' # <<>>
                 /\ (\E i \in DOMAIN latestIn' : latestIn'[i].k = "fail")
                        => ret'.report = _get_empty_report
                 /\ CollectedLatest' = <<>>
                        => ret'.report = _get_empty_report]_vars

\* C4 witness: a call found an entry exactly 24 hours old, queried the remote
\* source, the query failed and the call returned the empty snapshot while
\* the entry still holds a snapshot.
C4_Witness ==
    /\ call.op = "latest"
    /\ EntryOf(cache, call.symbol).state = "ok"
    /\ now - EntryOf(cache, call.symbol).mtime = 24
    /\ queries # <<>>
    /\ LatestQueryFailed
    /\ ret.report = _get_empty_report
    /\ EntryOf(cache, call.symbol).snap # _get_empty_report

\* The last call obtained a row from the remote source and returned the
\* snapshot built from it.
ReturnedBuiltSnapshot ==
    /\ call.op = "latest"
    /\ queries # <<>>
    /\ ret.report # _get_empty_report

\* C5 as stated: whenever fetch_latest_report returns a snapshot built from a
\* remote row, the cache entry of the symbol holds exactly that snapshot
\* afterwards.
C5_Original ==
    ReturnedBuiltSnapshot =>
        /\ EntryOf(cache, call.symbol).state = "ok"
        /\ EntryOf(cache, call.symbol).snap = ret.report

\* C5 amended: whenever fetch_latest_report returns a snapshot built from a
\* remote row and the cache write succeeds, the entry of the symbol holds
\* exactly that snapshot, written at the time of the call; the next
\* fetch_latest_report for the symbol within 24 hours returns an equal
\* snapshot; and no step removes an entry.
C5_SuccessfulFetchCached ==
    /\ [](ReturnedBuiltSnapshot /\ saveIn = "ok"
            => /\ EntryOf(cache, call.symbol).state = "ok"
               /\ EntryOf(cache, call.symbol).snap = ret.report)
    /\ [][/\ (ReturnedBuiltSnapshot' /\ saveIn' = "ok" /\ IsLatestStep(call'.symbol))
             => EntryOf(cache', call'.symbol).mtime = now
          /\ \A symbol \in Symbols :
                (/\ IsLatestStep(symbol)
                 /\ ReturnedBuiltSnapshot /\ saveIn = "ok"
                 /\ call.symbol = symbol
                 /\ now - EntryOf(cache, symbol).mtime < max_age_hours)
                => ret'.report = ret.report
          /\ \A path \in CacheFiles :
                cache[path].state # "absent" => cache'[path].state # "absent"]_vars

\* C5 witness: a call built a snapshot from a row and wrote it 12 hours ago;
\* the entry holds that snapshot.
C5_Witness ==
    /\ ReturnedBuiltSnapshot
    /\ saveIn = "ok"
    /\ EntryOf(cache, call.symbol).snap = ret.report
    /\ EntryOf(cache, call.symbol).mtime = 12
    /\ now = 24

\* C6 as stated: for a symbol string without contract names in the registry
\* of the report type in use, fetch_latest_report returns the empty snapshot
\* and fetch_historical_data the empty sequence, without raising and without
\* a remote query.
C6_Original ==
    /\ (call.op = "latest" /\ RegistryGet(SYMBOL_TO_CONTRACT, call.symbol) = <<>>)
          => (ret.report = _get_empty_report /\ ~ret.exc /\ queries = <<>>)
    /\ (call.op = "history"
        /\ HistContractNames(call.symbol, call.report_type) = <<>>)
          => (ret.series = <<>> /\ ~ret.exc /\ queries = <<>>)

\* C7: on a cache miss fetch_latest_report issues one limit-1, date-descending
\* query per contract name (up to the first that fails), and when no query
\* fails the snapshot returned is the one built from a single collected row
\* that has the maximum report date (the empty snapshot when the coercion
\* of that row raises); values of different rows are never summed.
C7_LatestFromMostRecentRow ==
    (call.op = "latest" /\ queries # <<>>) =>
        LET contract_names == RegistryGet(SYMBOL_TO_CONTRACT, call.symbol)
        IN  /\ Len(queries) <= Len(contract_names)
            /\ Len(queries) = Len(latestIn)
            /\ \A i \in DOMAIN queries :
                  /\ queries[i].name = contract_names[i]
                  /\ queries[i].limit = 1
                  /\ queries[i].order = "DESC"
                  /\ queries[i].dataset = "6dca-aqww"
            /\ ~LatestQueryFailed =>
                  /\ Len(queries) = Len(contract_names)
                  /\ CollectedLatest = <<>> => ret.report = _get_empty_report
                  /\ CollectedLatest # <<>> =>
                        \E r \in TopRows :
                            IF RowRaises(r)
                            THEN ret.report = _get_empty_report
                            ELSE /\ ret.report = ProcessedReport(r)
                                 /\ ret.report.report_date.d
                                       = r.report_date_as_yyyy_mm_dd
                                 /\ ret.report.non_commercial_long
                                       = r.f["noncomm_positions_long_all"].v

\* C7 witness: two contract names returned rows of different dates, the first
\* name the later one, and the snapshot returned carries the later date.
C7_Witness ==
    /\ call.op = "latest"
    /\ Len(latestIn) = 2
    /\ Len(CollectedLatest) = 2
    /\ CollectedLatest[1].report_date_as_yyyy_mm_dd = 2
    /\ CollectedLatest[2].report_date_as_yyyy_mm_dd = 1
    /\ ret.report.report_date = [d |-> 2, kind |-> "formatted"]

\* ------------------------------------------------------------------------
\* Properties of fetch_historical_data (specification SpecHist)
\* ------------------------------------------------------------------------
\* A page request of the last history call failed.
HistRequestFailed == \E i \in DOMAIN histIn : histIn[i].failAt # 0

\* The rows the remote source holds for the contract names of the last
\* history call, in the order the call collects them.
CollectedHist == Concat([i \in DOMAIN histIn |-> histIn[i].rows])

\* The distinct report dates among them.
CollectedDates ==
    {CollectedHist[i].report_date_as_yyyy_mm_dd : i \in DOMAIN CollectedHist}

\* C2: fetch_historical_data never raises, and when the request for any page
\* of any contract name fails the call returns the empty sequence, even when
\* earlier pages or earlier names were fetched.
C2_HistoryFailureDiscardsAll ==
    call.op = "history" =>
        /\ ~ret.exc
        /\ HistRequestFailed => ret.series = <<>>

\* C2 witness: the first contract name was fetched completely and on its own
\* yields a non-empty series, the first request of the second name failed,
\* and the call returned the empty sequence.
C2_Witness ==
    /\ call.op = "history"
    /\ Len(histIn) = 2
    /\ histIn[1].failAt = 0
    /\ HistProcess(histIn[1].rows,
                   ByReportType(REPORT_FIELD_MAPPINGS, call.report_type)).series
          # <<>>
    /\ histIn[2].failAt = 1
    /\ ret.series = <<>>

\* The series has exactly one point per distinct report date collected.
OnePointPerDate ==
    /\ {ret.series[i].date : i \in DOMAIN ret.series} = CollectedDates
    /\ Len(ret.series) = Cardinality(CollectedDates)

\* C10: for any set of raw records the remote source returns, the sequence
\* fetch_historical_data returns is strictly ascending by date, so no two
\* points share a date, and has exactly one point per distinct report date
\* collected. It fails where a record holds a value that is not finite: the
\* chart loop raises on it and the call returns the empty sequence with
\* report dates collected.
C10_Original ==
    call.op = "history" =>
        /\ \A i, j \in DOMAIN ret.series :
              i < j => ret.series[i].date < ret.series[j].date
        /\ ~HistRequestFailed => OnePointPerDate

\* What does hold of the returned sequence: it is strictly ascending by
\* date; when every request was answered and every collected value is
\* finite it has exactly one point per distinct report date collected; and
\* when it has not, no request having failed, it is empty and a collected
\* record holds a value that is not finite.
HistorySortedDistinctOrLost ==
    call.op = "history" =>
        /\ \A i, j \in DOMAIN ret.series :
              i < j => ret.series[i].date < ret.series[j].date
        /\ (/\ ~HistRequestFailed
            /\ \A i \in DOMAIN CollectedHist : ~RowRaises(CollectedHist[i]))
           => OnePointPerDate
        /\ (~HistRequestFailed /\ ~OnePointPerDate)
           => /\ ret.series = <<>>
              /\ \E i \in DOMAIN CollectedHist : RowRaises(CollectedHist[i])

\* The case that holds is met: the first contract name returned two rows of
\* different dates, the later date first, the second name a row of a date
\* the first also returned, and the series has the two dates once each,
\* ascending.
HistorySortedDistinctMet ==
    /\ call.op = "history"
    /\ Len(histIn) = 2
    /\ Len(histIn[1].rows) = 2
    /\ histIn[1].rows[1].report_date_as_yyyy_mm_dd = 2
    /\ histIn[1].rows[2].report_date_as_yyyy_mm_dd = 1
    /\ Len(histIn[2].rows) = 1
    /\ Len(ret.series) = 2
    /\ ret.series[1].date = 1
    /\ ret.series[2].date = 2

\* ------------------------------------------------------------------------
\* Properties of the snapshot arithmetic (specifications SpecDash, SpecPct)
\* ------------------------------------------------------------------------
\* net = long - short for the three roles of a snapshot or of the dashboard
\* state fields.
NetIsLongMinusShort(s) ==
    /\ s.non_commercial_net = s.non_commercial_long - s.non_commercial_short
    /\ s.commercial_net = s.commercial_long - s.commercial_short
    /\ s.non_reportable_net = s.non_reportable_long - s.non_reportable_short

\* C8: in every snapshot fetch_latest_report returns (built from a row, read
\* from a cache entry this program wrote, or the empty snapshot), in every
\* cache entry written, and in the dashboard state fields copied from a
\* snapshot, net equals long minus short for each of the three roles.
C8_NetIsLongMinusShort ==
    /\ NetIsLongMinusShort(ret.report)
    /\ NetIsLongMinusShort(dash)
    /\ \A path \in CacheFiles :
          cache[path].state = "ok" => NetIsLongMinusShort(cache[path].snap)

\* C8 witness: a dashboard event copied into the state fields a snapshot
\* that was read from a cache entry built from a row with non-zero positions.
C8_Witness ==
    /\ call.op = "refresh_data"
    /\ queries = <<>>
    /\ ret.report.report_date.kind = "formatted"
    /\ dash.report_date = ret.report.report_date
    /\ dash.commercial_long = 2
    /\ dash.commercial_net = 2
    /\ dash.non_commercial_long = 1
    /\ dash.non_commercial_short = 1
    /\ dash.non_commercial_net = 0

\* The six position fields of the processed row and their sum.
RowPos(name) == safe_int(data.f[name]).v

RowTotal ==
    RowPos("noncomm_positions_long_all") + RowPos("noncomm_positions_short_all")
    + RowPos("comm_positions_long_all") + RowPos("comm_positions_short_all")
    + RowPos("nonrept_positions_long_all") + RowPos("nonrept_positions_short_all")

Abs(x) == IF x >= 0 THEN x ELSE -x

\* p (in tenths) is part / total * 100 rounded to one decimal: a tenth
\* nearest to it.
IsRoundedPct(p, part, total) ==
    2 * Abs(p * total - 1000 * part) <= Abs(total)

\* The three pct fields of the snapshot are the rounded ratios of the row.
PctAreRatios ==
    /\ IsRoundedPct(ret.report.non_commercial_pct,
                    RowPos("noncomm_positions_long_all")
                        + RowPos("noncomm_positions_short_all"), RowTotal)
    /\ IsRoundedPct(ret.report.commercial_pct,
                    RowPos("comm_positions_long_all")
                        + RowPos("comm_positions_short_all"), RowTotal)
    /\ IsRoundedPct(ret.report.non_reportable_pct,
                    RowPos("nonrept_positions_long_all")
                        + RowPos("nonrept_positions_short_all"), RowTotal)

PctAreZero ==
    /\ ret.report.non_commercial_pct = 0
    /\ ret.report.commercial_pct = 0
    /\ ret.report.non_reportable_pct = 0

\* C9 as stated: when the sum of the six position fields of a row is 0 the
\* three pct fields are 0, otherwise each is (long + short of the role) /
\* total * 100 rounded to one decimal.
C9_Original ==
    call.op = "process" =>
        /\ ~ret.exc
        /\ IF RowTotal = 0 THEN PctAreZero ELSE PctAreRatios

\* C9 amended: when the sum of the six position fields of a row is 0 or
\* negative the three pct fields are 0 and no division is performed; when it
\* is positive each pct is (long + short of the role) / total * 100 rounded
\* to one decimal.
C9_PctOfPositiveTotal ==
    call.op = "process" =>
        /\ ~ret.exc
        /\ IF RowTotal <= 0 THEN PctAreZero ELSE PctAreRatios

\* C9 witness: a row with total 3 whose non-commercial share is one third
\* was processed, giving 33.3, 66.7 and 0.
C9_Witness ==
    /\ call.op = "process"
    /\ RowTotal = 3
    /\ ret.report.non_commercial_pct = 333
    /\ ret.report.commercial_pct = 667
    /\ ret.report.non_reportable_pct = 0

\* ------------------------------------------------------------------------
\* Properties of the registries and of the history series (SpecHist)
\* ------------------------------------------------------------------------
\* The symbol of the last call is a key of a registry.
CallSymbolIn(registry) ==
    Len(call.symbol) = 1 /\ call.symbol[1] \in DOMAIN registry

\* C13: the symbol sets of the TFF and Disaggregated registries are disjoint,
\* their union is the symbol set of the Legacy registry, every registry entry
\* is a non-empty name list, and fetch_historical_data returns the empty
\* sequence, without a query, for a Disaggregated (commodity) symbol under
\* "tff" and for a TFF (financial) symbol under "disaggregated".
C13_RegistriesPartition ==
    /\ DOMAIN SYMBOL_TO_CONTRACT_TFF \cap DOMAIN SYMBOL_TO_CONTRACT_DISAGG = {}
    /\ DOMAIN SYMBOL_TO_CONTRACT_TFF \cup DOMAIN SYMBOL_TO_CONTRACT_DISAGG
          = DOMAIN SYMBOL_TO_CONTRACT
    /\ \A registry \in {SYMBOL_TO_CONTRACT, SYMBOL_TO_CONTRACT_TFF,
                        SYMBOL_TO_CONTRACT_DISAGG} :
          \A symbol \in DOMAIN registry : registry[symbol] # <<>>
    /\ (/\ call.op = "history"
        /\ \/ call.report_type = "tff"
              /\ CallSymbolIn(SYMBOL_TO_CONTRACT_DISAGG)
           \/ call.report_type = "disaggregated"
              /\ CallSymbolIn(SYMBOL_TO_CONTRACT_TFF))
       => (ret.series = <<>> /\ ~ret.exc /\ queries = <<>>)

\* C13 witness: fetch_historical_data("CL", report_type="tff") returned the
\* empty sequence although "CL" has names in the Legacy registry.
C13_Witness ==
    /\ call.op = "history"
    /\ call.symbol = SymCL
    /\ call.report_type = "tff"
    /\ RegistryGet(SYMBOL_TO_CONTRACT, call.symbol) # <<>>
    /\ ret.series = <<>>
    /\ queries = <<>>

\* The index in collection order of the last collected record of a date.
LastSeen(date) ==
    CHOOSE i \in DOMAIN CollectedHist :
        /\ CollectedHist[i].report_date_as_yyyy_mm_dd = date
        /\ \A j \in DOMAIN CollectedHist :
              CollectedHist[j].report_date_as_yyyy_mm_dd = date => j <= i

\* The net values of one collected record under the schema of the call.
NetsOfRecord(i) ==
    LET field_mapping == ByReportType(REPORT_FIELD_MAPPINGS, call.report_type)
    IN  PointNets(NewCols(CollectedHist, CollectedHist[i], field_mapping),
                  field_mapping)

\* C11: when no request fails, the point fetch_historical_data emits for a
\* date has the net values of the record of that date seen last in
\* collection order (names in registry order, pages in offset order, rows in
\* page order), and there is such a point for every collected date: records
\* seen earlier for the date have no effect on the output.
C11_LastSeenWins ==
    (call.op = "history" /\ ~HistRequestFailed) =>
        /\ {ret.series[i].date : i \in DOMAIN ret.series} = CollectedDates
        /\ \A i \in DOMAIN ret.series :
              \A label \in DOMAIN ret.series[i] \ {"date", "week"} :
                  /\ label \in DOMAIN NetsOfRecord(LastSeen(ret.series[i].date))
                  /\ ret.series[i][label]
                        = NetsOfRecord(LastSeen(ret.series[i].date))[label]

\* C11 witness: the first contract name returned a record of the first date
\* with net 1, the second name a record of the same date with net 0, and the
\* single point emitted has net 0.
C11_Witness ==
    /\ call.op = "history"
    /\ call.symbol = SymCL /\ call.report_type = "legacy"
    /\ Len(histIn) = 2
    /\ histIn[1].failAt = 0 /\ histIn[2].failAt = 0
    /\ histIn[1].rows = <<HistRow("legacy", 1, Num(2))>>
    /\ histIn[2].rows = <<HistRow("legacy", 1, Num(1))>>
    /\ Len(ret.series) = 1
    /\ ret.series[1].non_commercial = 0

\* The contract names of the last history call.
CallNames == HistContractNames(call.symbol, call.report_type)

\* The number of page requests the i-th contract name gets: none once an
\* earlier request has failed; up to the failing one; else one per full page
\* the source holds and one more, whose response is shorter than a page.
PageRequests(i) ==
    IF \E j \in 1..(i - 1) : histIn[j].failAt # 0 THEN 0
    ELSE IF histIn[i].failAt # 0 THEN histIn[i].failAt
    ELSE Len(histIn[i].rows) \div batch_size + 1

\* The rows the j-th page response of the i-th contract name holds.
PageResponse(i, j) ==
    SubSeq(histIn[i].rows, (j - 1) * batch_size + 1,
           Min(j * batch_size, Len(histIn[i].rows)))

\* C12: for each contract name fetch_historical_data requests pages of the
\* fixed batch size at offsets 0, B, 2B, ... in that order, names in registry
\* order, and stops for a name at the first response that holds fewer than B
\* rows (an empty one included); when no request fails every row of every
\* response is collected exactly once, in request order.
C12_PaginationByOffset ==
    call.op = "history" =>
        /\ queries =
              Concat([i \in DOMAIN CallNames |->
                        [j \in 1..PageRequests(i) |->
                            [name |-> CallNames[i],
                             dataset |-> ByReportType(DATASET_IDS, call.report_type),
                             limit |-> batch_size,
                             offset |-> (j - 1) * batch_size,
                             order |-> "ASC"]]])
        /\ \A i \in DOMAIN CallNames :
              \A j \in 1..PageRequests(i) :
                  /\ j < PageRequests(i) => Len(PageResponse(i, j)) = batch_size
                  /\ (j = PageRequests(i) /\ histIn[i].failAt = 0)
                        => Len(PageResponse(i, j)) < batch_size
        /\ ~HistRequestFailed =>
              /\ CollectAll(ByReportType(DATASET_IDS, call.report_type),
                            CallNames, histIn, 1).rows = CollectedHist
              /\ CollectedHist =
                    Concat([i \in DOMAIN CallNames |->
                              Concat([j \in 1..PageRequests(i) |->
                                        PageResponse(i, j)])])

\* C12 witness: the source holds one full page for the first contract name,
\* requested at offsets 0 and B (the second response is empty), and a short
\* page for the second name, requested at offset 0 only.
C12_Witness ==
    /\ call.op = "history"
    /\ Len(histIn) = 2
    /\ Len(histIn[1].rows) = batch_size
    /\ Len(histIn[2].rows) = 1
    /\ ~HistRequestFailed
    /\ Len(queries) = 3
    /\ queries[1].offset = 0 /\ queries[1].name = CallNames[1]
    /\ queries[2].offset = batch_size /\ queries[2].name = CallNames[1]
    /\ queries[3].offset = 0 /\ queries[3].name = CallNames[2]
    /\ Len(ret.series) >= 1

\* The roles of the schema of a report type.
RolesOf(report_type) ==
    DOMAIN REPORT_FIELD_MAPPINGS[report_type]
        \cap {"trader1", "trader2", "trader3", "trader4"}

\* The role labels a point of a report type is to carry.
RoleLabels(report_type) ==
    CASE report_type = "legacy" ->
            {"non_commercial", "commercial", "non_reportable"}
      [] report_type = "disaggregated" ->
            {"producer_merchant", "swap_dealer", "managed_money",
             "other_reportable"}
      [] report_type = "tff" ->
            {"dealer", "asset_manager", "leveraged_funds", "other_reportable"}

\* C14: the role schema has three roles for Legacy and four for
\* Disaggregated and TFF, and every point fetch_historical_data emits
\* carries, besides date and week, exactly the role-label keys of its report
\* type: three under Legacy, four under Disaggregated and TFF.
C14_PointKeysMatchSchema ==
    /\ RolesOf("legacy") = {"trader1", "trader2", "trader3"}
    /\ RolesOf("disaggregated") = {"trader1", "trader2", "trader3", "trader4"}
    /\ RolesOf("tff") = {"trader1", "trader2", "trader3", "trader4"}
    /\ (call.op = "history"
        /\ call.report_type \in {"legacy", "disaggregated", "tff"})
       => \A i \in DOMAIN ret.series :
             LET keys == DOMAIN ret.series[i] \ {"date", "week"}
             IN  /\ {"date", "week"} \subseteq DOMAIN ret.series[i]
                 /\ keys = RoleLabels(call.report_type)
                 /\ Cardinality(keys) = Cardinality(RolesOf(call.report_type))
                 /\ Cardinality(keys)
                       = IF call.report_type = "legacy" THEN 3 ELSE 4

\* C14 witness: a Legacy call emitted a point with three net values and no
\* fourth key.
C14_Witness ==
    /\ call.op = "history"
    /\ call.report_type = "legacy"
    /\ Len(ret.series) = 2
    /\ DOMAIN ret.series[2]
          = {"date", "week", "non_commercial", "commercial", "non_reportable"}

\* ------------------------------------------------------------------------
\* Properties of the derivation engine (specification SpecDerive)
\* ------------------------------------------------------------------------
\* The last call was calculate_rolling_zscore and it has returned.
ZscoreReturned ==
    call.op = "calculate_rolling_zscore" /\ "historical_positions" \in DOMAIN data

\* The values of a list are all equal.
AllEqual(values) == \A i, j \in DOMAIN values : values[i] = values[j]

\* C15: a z-score call with at least two historical values whose window
\* holds one value or more and equal values only (standard deviation 0)
\* returns, for every current position, z_score 0 with the interpretation
\* "No variance in data", by a normal return and not by a division error.
C15_ZeroVarianceSentinel ==
    (/\ ZscoreReturned
     /\ Len(data.historical_positions) >= 2
     /\ ZWindow(data.historical_positions, data.window) # <<>>
     /\ AllEqual(ZWindow(data.historical_positions, data.window)))
    => /\ ~ret.exc
       /\ ret.value.interpretation = "No variance in data"
       /\ ret.value.z_score = 0

\* A call whose history varies but whose window does not, with a current
\* position away from the window's value, returned the sentinel.
C15_Witness ==
    /\ ZscoreReturned
    /\ Len(data.historical_positions) >= 3
    /\ ~AllEqual(data.historical_positions)
    /\ Len(ZWindow(data.historical_positions, data.window)) = 2
    /\ AllEqual(ZWindow(data.historical_positions, data.window))
    /\ data.current_position # data.historical_positions[Len(data.historical_positions)]
    /\ ret.value.interpretation = "No variance in data"

\* The interpretation the fixed thresholds give a z-score in hundredths.
ThresholdLabel(z) ==
    CASE z > 200 -> "Extremely Bullish"
      [] z > 100 /\ z <= 200 -> "Bullish"
      [] z > -100 /\ z <= 100 -> "Neutral"
      [] z > -200 /\ z <= -100 -> "Bearish"
      [] z <= -200 -> "Extremely Bearish"

\* C16: every z-score result computed with a non-zero standard deviation
\* (a window of values that are not all equal) carries the interpretation the fixed thresholds assign to its rounded
\* z_score (z > 2 Extremely Bullish, 1 < z <= 2 Bullish, -1 < z <= 1
\* Neutral, -2 < z <= -1 Bearish, z <= -2 Extremely Bearish), and is_extreme
\* is true exactly when |z_score| >= 2.
C16_InterpretationByThresholds ==
    (/\ ZscoreReturned
     /\ Len(data.historical_positions) >= 2
     /\ ~AllEqual(ZWindow(data.historical_positions, data.window)))
    => /\ ret.value.interpretation = ThresholdLabel(ret.value.z_score)
       /\ ret.value.is_extreme
            <=> (ret.value.z_score >= 200 \/ ret.value.z_score <= -200)

\* A call returned a z-score of exactly 2.0: "Bullish" and extreme.
C16_Witness ==
    /\ ZscoreReturned
    /\ ~AllEqual(ZWindow(data.historical_positions, data.window))
    /\ ret.value.z_score = 200
    /\ ret.value.interpretation = "Bullish"
    /\ ret.value.is_extreme

\* The last call was calculate_positioning_velocity and it has returned.
VelocityReturned ==
    call.op = "calculate_positioning_velocity" /\ "positions" \in DOMAIN data

\* C17: the derivation functions signal insufficient data by a sentinel
\* result and never by an exception: a z-score call with fewer than 2
\* historical values returns z_score 0 with the interpretation
\* "Insufficient data", and a velocity call with fewer than 3 points returns
\* velocity 0, acceleration 0, the trend "Insufficient data" and empty
\* series, the empty list included.
C17_InsufficientDataSentinels ==
    /\ (ZscoreReturned /\ Len(data.historical_positions) < 2)
          => /\ ~ret.exc
             /\ ret.value.interpretation = "Insufficient data"
             /\ ret.value.z_score = 0
    /\ (VelocityReturned /\ Len(data.positions) < 3)
          => /\ ~ret.exc
             /\ ret.value.velocity = 0
             /\ ret.value.acceleration = 0
             /\ ret.value.trend = "Insufficient data"
             /\ ret.value.velocity_series = <<>>
             /\ ret.value.acceleration_series = <<>>

\* A z-score call with a single historical value, different from the
\* current position, returned the sentinel.
C17_Witness ==
    /\ ZscoreReturned
    /\ Len(data.historical_positions) = 1
    /\ data.current_position # data.historical_positions[1]
    /\ ~ret.exc
    /\ ret.value.interpretation = "Insufficient data"

\* The successive increases of a series are positive and strictly growing.
IncreasingGaps(positions) ==
    /\ \A i \in 1..(Len(positions) - 1) : positions[i + 1] > positions[i]
    /\ \A i \in 1..(Len(positions) - 2) :
          positions[i + 2] - positions[i + 1] > positions[i + 1] - positions[i]

\* C18: for a series of at least 3 points whose successive increases are
\* positive and strictly growing, such as [100,110,125,145], a velocity call
\* with the default smoothing window of 4 reports a positive current
\* velocity, a positive current acceleration and the trend "Accelerating
\* Buildup".  The code does not satisfy this for series of 4 or more points.
C18_Original ==
    (/\ VelocityReturned
     /\ data.smoothing_window = smoothing_window_default
     /\ Len(data.positions) >= 3
     /\ IncreasingGaps(data.positions))
    => /\ ret.value.velocity > 0
       /\ ret.value.acceleration > 0
       /\ ret.value.trend = "Accelerating Buildup"

\* The last call was _calculate_current_percentile_history and it has
\* returned.
PercentileHistoryReturned ==
    call.op = "_calculate_current_percentile_history"
        /\ "percentile_lookback" \in DOMAIN data

\* The 1-based indices of the strictly-prior points in the trailing window
\* of the point k: 0-based max(0, i - 4 * lookbackMonths) .. i - 1.
PriorIndices(k) ==
    LET weeks == 4 * LookbackMonths(data.percentile_lookback)
    IN  {j \in 1..(k - 1) : j >= k - weeks}

\* The prior points of the point k whose position is strictly less than its
\* own.
PriorBelow(k) ==
    {j \in PriorIndices(k) :
        ret.value.percentile_history[j].position
            < ret.value.percentile_history[k].position}

\* C19 as stated: the percentile of a point with at least 4 prior values in
\* its window is exactly 100 * (prior values strictly less) / (prior
\* values), and exactly 50.0 with fewer than 4.  It fails where the quotient
\* has more than one decimal, since the code rounds it.
C19_Original ==
    PercentileHistoryReturned
    => \A k \in DOMAIN ret.value.percentile_history :
          LET n == Cardinality(PriorIndices(k))
              p == ret.value.percentile_history[k].percentile
          IN  IF n >= 4
              THEN p * n = 1000 * Cardinality(PriorBelow(k))
              ELSE p = 500

\* C19: in the rolling percentile series the percentile of the point at
\* index i is computed only from its value and the strictly-prior values at
\* indices max(0, i - 4 * lookbackMonths) .. i - 1: with at least 4 such
\* values it is 100 * (number strictly less than the current value) /
\* (number of them) rounded to one decimal, with fewer than 4 it is exactly
\* 50.0; later points do not enter.  With prior values 10, 20, 30, 40 and
\* current value 25 it is 50.0.
C19_RollingPercentile ==
    PercentileHistoryReturned
    => \A k \in DOMAIN ret.value.percentile_history :
          LET n == Cardinality(PriorIndices(k))
              p == ret.value.percentile_history[k].percentile
              d == p * n - 1000 * Cardinality(PriorBelow(k))
          IN  /\ IF n >= 4
                 THEN 2 * d <= n /\ -2 * d <= n
                 ELSE p = 500
              /\ (/\ k = 5
                  /\ [j \in 1..5 |->
                        ret.value.percentile_history[j].position]
                        = <<10, 20, 30, 40, 25>>)
                 => p = 500

\* A series longer than the lookback was processed: the window of its last
\* point leaves out the first point, and its percentile is strictly between
\* 0 and 100 and not 50.0.
C19_Witness ==
    /\ PercentileHistoryReturned
    /\ LET h == ret.value.percentile_history
       IN  /\ Len(h) > 4 * LookbackMonths(data.percentile_lookback) + 1
           /\ 1 \notin PriorIndices(Len(h))
           /\ Cardinality(PriorIndices(Len(h))) >= 4
           /\ h[Len(h)].percentile \notin {0, 500, 1000}

\* The last call was calculate_percentile_rank and it has returned.
RankReturned ==
    call.op = "calculate_percentile_rank" /\ "historical_values" \in DOMAIN data

\* The label the fixed cascade assigns to a percentile in tenths.
CascadeLabel(p) ==
    CASE p >= 900 -> "Extremely High"
      [] p >= 750 /\ p < 900 -> "High"
      [] p >= 500 /\ p < 750 -> "Above Average"
      [] p >= 250 /\ p < 500 -> "Below Average"
      [] p >= 100 /\ p < 250 -> "Low"
      [] p < 100 -> "Extremely Low"

\* C20: for every input of calculate_percentile_rank the returned percentile
\* lies in 0..100 and the returned rank_label is the one the fixed cascade
\* assigns to that percentile (>= 90 "Extremely High", >= 75 "High", >= 50
\* "Above Average", >= 25 "Below Average", >= 10 "Low", else "Extremely
\* Low"). It fails where the call raises ZeroDivisionError, and for the empty
\* history, which is given 50.0 with the label "Neutral".
C20_Original ==
    RankReturned
    => /\ ~ret.exc
       /\ ret.value.percentile >= 0 /\ ret.value.percentile <= 1000
       /\ ret.value.rank_label = CascadeLabel(ret.value.percentile)

\* The window of the call is empty although the history is not: a negative
\* lookback drops 4 * |lookback_months| leading values, which are all.
RankWindowEmpty ==
    /\ data.lookback_months < 0
    /\ data.historical_values # <<>>
    /\ Len(data.historical_values) <= -4 * data.lookback_months

\* What does hold of calculate_percentile_rank: the call raises exactly when
\* its window is empty and its history is not; a call that returns gives a
\* percentile in 0..100, with the cascade's label for a non-empty history
\* and 50.0 "Neutral" for the empty one.
PercentileRankOutcome ==
    RankReturned
    => /\ ret.exc <=> RankWindowEmpty
       /\ ~ret.exc
          => /\ ret.value.percentile >= 0 /\ ret.value.percentile <= 1000
             /\ IF data.historical_values # <<>>
                THEN ret.value.rank_label = CascadeLabel(ret.value.percentile)
                ELSE /\ ret.value.percentile = 500
                     /\ ret.value.rank_label = "Neutral"

\* A call with an empty window has raised.
PercentileRankRaised == RankReturned /\ RankWindowEmpty /\ ret.exc

\* A call over a history longer than its lookback window returned exactly
\* 75.0, the lower edge of "High".
PercentileRankAtEdge ==
    /\ RankReturned
    /\ data.lookback_months = 1
    /\ Len(data.historical_values) > 4
    /\ ret.value.percentile = 750
    /\ ret.value.rank_label = "High"

\* ------------------------------------------------------------------------
\* Properties of the numeric coercions (specification SpecCoerce)
\* ------------------------------------------------------------------------
\* The raw value of a field of the processed row is missing or malformed.
MissingOrMalformed(name) == data.f[name].k \in {"bad", "none", "nan"}

\* C21: numeric coercion never throws: for every raw field value (a number,
\* a numeric string, an empty or malformed string, a missing field or None,
\* a non-finite numeric string) the processing of the latest snapshot and of
\* the history yields numbers, and a missing or malformed field yields 0.
\* The code does not satisfy this for non-finite numeric strings.
C21_Original ==
    /\ call.op = "process"
          => /\ ~ret.exc
             /\ MissingOrMalformed("noncomm_positions_long_all")
                   => ret.report.non_commercial_long = 0
             /\ MissingOrMalformed("comm_positions_short_all")
                   => ret.report.commercial_short = 0
    /\ call.op = "history_process"
          => /\ ~ret.exc
             /\ Len(ret.series) = 1
             /\ (/\ MissingOrMalformed("noncomm_positions_long_all")
                 /\ data.f["noncomm_positions_short_all"].k = "num")
                   => ret.series[1].non_commercial
                        = -data.f["noncomm_positions_short_all"].v

\* ------------------------------------------------------------------------
\* Properties of the order of contract names (specification SpecDup)
\* ------------------------------------------------------------------------
\* The series fetch_historical_data returns when the names of the symbol
\* are listed in the order p and each name has the same remote data.
SeriesInOrder(p) ==
    LET names == HistContractNames(call.symbol, call.report_type)
        got == CollectAll(ByReportType(DATASET_IDS, call.report_type),
                          [i \in DOMAIN names |-> names[p[i]]],
                          [i \in DOMAIN names |-> histIn[p[i]]], 1)
        out == HistProcess(got.rows,
                           ByReportType(REPORT_FIELD_MAPPINGS,
                                        call.report_type))
    IN  HistExcept(got, out).series

\* C22: the order of a symbol's contract names is not meaningful: for the
\* same remote data the call returns the same sequence of points for every
\* permutation of the name list, also when two names return records of the
\* same report date with different values.  The code does not satisfy this:
\* of two such records the one of the later name is kept.
C22_Original ==
    (call.op = "history" /\ histIn # <<>>)
    => \A p \in Permutations(DOMAIN histIn) : SeriesInOrder(p) = ret.series

\* ------------------------------------------------------------------------
\* Further properties of the cache (specification Spec)
\* ------------------------------------------------------------------------
\* The last call built a snapshot from a remote row and its cache write
\* failed.
CacheWriteFailed ==
    /\ ReturnedBuiltSnapshot
    /\ saveIn \in {"open_fails", "dump_fails"}

\* C23: a failure to write the cache is swallowed: when fetch_latest_report
\* has built a snapshot from a remote row and the cache write fails, the call
\* returns that snapshot and not the empty one, does not raise, and the next
\* call for the symbol queries the remote source again.
C23_WriteFailureSwallowed ==
    /\ [](call.op = "latest" /\ saveIn \in {"open_fails", "dump_fails"}
            => /\ ~ret.exc
               /\ ret.report # _get_empty_report
               /\ ret.report = ProcessedReport(MostRecent(CollectedLatest)))
    /\ [][\A symbol \in Symbols :
             (CacheWriteFailed /\ call.symbol = symbol /\ IsLatestStep(symbol))
                => queries' # <<>>]_vars

\* A call found the partial file an earlier failed write had left, queried
\* the remote source again and returned the snapshot although its own write
\* failed as well.
C23_Witness ==
    /\ CacheWriteFailed
    /\ saveIn = "open_fails"
    /\ EntryOf(cache, call.symbol).state = "corrupt"
    /\ EntryOf(cache, call.symbol).mtime = now
    /\ ret.report = ProcessedReport(MostRecent(CollectedLatest))

\* ------------------------------------------------------------------------
\* Properties of the report type lookup (specification SpecHist)
\* ------------------------------------------------------------------------
\* C24: a report type outside {legacy, disaggregated, tff} is not recognized:
\* fetch_historical_data called with such a report type resolves no role
\* schema, dataset or name list for it, so it issues no query and never
\* returns the data series of another report type.  The code does not
\* satisfy this: it falls back to the Legacy registry, dataset and schema.
C24_Original ==
    (/\ call.op = "history"
     /\ call.report_type \notin {"legacy", "disaggregated", "tff"})
    => /\ queries = <<>>
       /\ ret.series = <<>>

\* ------------------------------------------------------------------------
\* C25: the cross-sectional percentile table
\* ------------------------------------------------------------------------
RankLoaded == call.op = "_load_percentile_data"

\* The snapshot fetch_cot_data returned for the asset of an entry.
SnapshotOf(entry) ==
    LET i == CHOOSE k \in DOMAIN ALL_ASSETS :
                 ALL_ASSETS[k].symbol = entry.symbol
    IN  ret.latest[i].report

\* One entry per asset of ALL_ASSETS, in non-increasing order of percentile.
OnePerAssetSorted(entries) ==
    /\ Len(entries) = Len(ALL_ASSETS)
    /\ \A i \in DOMAIN ALL_ASSETS :
          Cardinality({k \in DOMAIN entries :
                          entries[k].symbol = ALL_ASSETS[i].symbol}) = 1
    /\ \A k \in 1..(Len(entries) - 1) :
          entries[k].percentile >= entries[k + 1].percentile

\* Numerator and denominator of 50 + (net / oi * 100) * 2 * (12 / months)
\* in tenths, clamped to 0..100, for a positive open interest.
ClampedNumerator(net, oi, months) ==
    LET num == 500 * oi * months + 24000 * net
        den == oi * months
    IN  IF num > 1000 * den THEN 1000 * den
        ELSE IF num < 0 THEN 0 ELSE num

\* C25 as stated: after _load_percentile_data, percentile_data holds one
\* entry per asset, sorted by percentile in non-increasing order, and each
\* entry's percentile is exactly the clamped value of the formula (50 when
\* open interest is not positive).
C25_Original ==
    RankLoaded =>
        /\ OnePerAssetSorted(ret.value.percentile_data)
        /\ \A k \in DOMAIN ret.value.percentile_data :
              LET entry == ret.value.percentile_data[k]
                  snapshot == SnapshotOf(entry)
                  net == SelectedNet(snapshot, data.percentile_trader_type)
                  oi == snapshot.open_interest
                  months == LookbackMonths(data.percentile_lookback)
              IN  IF oi > 0
                  THEN entry.percentile * oi * months
                           = ClampedNumerator(net, oi, months)
                  ELSE entry.percentile = 500

\* C25, amended: after _load_percentile_data, percentile_data holds one
\* entry per asset, sorted by percentile in non-increasing order, and each
\* entry's percentile is the clamped value of the formula rounded to one
\* decimal, to a nearest tenth (50.0 when open interest is not positive,
\* for the empty snapshot included).
C25_PercentileTable ==
    RankLoaded =>
        /\ OnePerAssetSorted(ret.value.percentile_data)
        /\ \A k \in DOMAIN ret.value.percentile_data :
              LET entry == ret.value.percentile_data[k]
                  snapshot == SnapshotOf(entry)
                  net == SelectedNet(snapshot, data.percentile_trader_type)
                  oi == snapshot.open_interest
                  months == LookbackMonths(data.percentile_lookback)
                  den == oi * months
                  off == entry.percentile * den
                             - ClampedNumerator(net, oi, months)
              IN  /\ entry.percentile \in 0..1000
                  /\ IF oi > 0
                     THEN /\ 2 * off <= den
                          /\ -2 * off <= den
                     ELSE entry.percentile = 500
                  /\ snapshot = _get_empty_report => entry.percentile = 500

\* A load whose table is led by the last asset of ALL_ASSETS, holds a
\* percentile clamped to 100, a percentile that rounding changed, and the
\* 50.0 of an asset whose fetch failed.
C25_Witness ==
    /\ RankLoaded
    /\ Len(ret.value.percentile_data) = 3
    /\ ret.value.percentile_data[1].symbol = ALL_ASSETS[3].symbol
    /\ ret.value.percentile_data[1].percentile = 1000
    /\ \E k \in 2..3 :
          LET entry == ret.value.percentile_data[k]
              snapshot == SnapshotOf(entry)
              net == SelectedNet(snapshot, data.percentile_trader_type)
              oi == snapshot.open_interest
              months == LookbackMonths(data.percentile_lookback)
          IN  /\ oi > 0
              /\ entry.percentile * oi * months
                     # ClampedNumerator(net, oi, months)
    /\ \E k \in 2..3 :
          /\ SnapshotOf(ret.value.percentile_data[k]) = _get_empty_report
          /\ ret.value.percentile_data[k].percentile = 500

\* ------------------------------------------------------------------------
\* C26: the pagination of fetch_historical_data terminates
\* ------------------------------------------------------------------------
\* The number of requests issued so far for a contract name.
RequestsFor(name) ==
    Cardinality({k \in DOMAIN queries : queries[k].name = name})

PageNames == HistContractNames(call.symbol, call.report_type)

\* The stepwise call has returned what fetch_historical_data yields.
PageReturnsAsCall ==
    call.op = "history" =>
        LET r == fetch_historical_data(call.symbol, call.report_type, histIn)
        IN  /\ queries = r.queries
            /\ ret.series = r.series
            /\ ret.exc = r.exc

\* C26: against a remote source that holds N rows for a contract name and
\* serves the rows at the requested offset, the loop for that name issues
\* at most floor(N / batch_size) + 1 requests; the call always returns, and
\* when it has returned either every name was paginated to its end or the
\* last request issued is the first one that failed.
C26_PaginationTerminates ==
    /\ [](\A i \in DOMAIN PageNames :
             RequestsFor(PageNames[i])
                 <= Len(histIn[i].rows) \div batch_size + 1)
    /\ <>(call.op = "history")
    /\ [](call.op = "history" =>
             \/ \A i \in DOMAIN PageNames :
                   /\ histIn[i].failAt = 0
                   /\ RequestsFor(PageNames[i])
                          = Len(histIn[i].rows) \div batch_size + 1
             \/ \E i \in DOMAIN PageNames :
                   /\ histIn[i].failAt # 0
                   /\ RequestsFor(PageNames[i]) = histIn[i].failAt
                   /\ queries[Len(queries)].name = PageNames[i]
                   /\ \A j \in DOMAIN PageNames :
                         /\ j < i => histIn[j].failAt = 0
                         /\ j > i => RequestsFor(PageNames[j]) = 0
                   /\ ret.series = <<>>)
    /\ []PageReturnsAsCall

\* A returned call for a symbol with two names whose first name holds
\* 2 * batch_size rows: three requests for it, then one for the second.
C26_Witness ==
    /\ call.op = "history"
    /\ Len(PageNames) = 2
    /\ Len(histIn[1].rows) = 2 * batch_size
    /\ histIn[1].failAt = 0
    /\ RequestsFor(PageNames[1]) = 3
    /\ RequestsFor(PageNames[2]) = 1
    /\ [k \in DOMAIN queries |-> queries[k].offset]
           = <<0, batch_size, 2 * batch_size, 0>>
    /\ Len(ret.series) = 1

\* ------------------------------------------------------------------------
\* C27: what changes the cache (specification Spec)
\* ------------------------------------------------------------------------
\* A step of the model that is a call of fetch_historical_data.
IsHistoryStep == call'.op = "history" /\ now' = now

\* The frame of the cache without the part on other symbols: an entry
\* changes only in a fetch_latest_report that queried the remote source and
\* returned a built snapshot; a call answered from the cache, a call that
\* returns the empty snapshot and a fetch_historical_data change no entry;
\* and a fetch_latest_report for a symbol changes no file but the one its
\* cache path names.
CacheFrame ==
    /\ cache' # cache =>
          \E symbol \in Symbols :
              /\ IsLatestStep(symbol)
              /\ queries' # <<>>
              /\ ret'.report # _get_empty_report
    /\ \A symbol \in Symbols :
          (/\ IsLatestStep(symbol)
           /\ \/ LatestCacheHit(cache, now, symbol)
              \/ ret'.report = _get_empty_report)
             => cache' = cache
    /\ IsHistoryStep => cache' = cache
    /\ \A symbol \in Symbols :
          IsLatestStep(symbol) =>
              \A path \in CacheFiles \ {_get_cache_path(symbol)} :
                  cache'[path] = cache[path]

CacheFrameByPath == [][CacheFrame]_vars

\* C27 as stated: the cache changes only through a successful latest fetch
\* of the same symbol; a fetch_latest_report answered from the cache or
\* returning the empty snapshot and every fetch_historical_data leave all
\* entries unchanged; and a fetch_latest_report for a symbol never changes
\* the entry of another symbol.
C27_Original ==
    [][/\ CacheFrame
       /\ \A symbol \in Symbols :
             IsLatestStep(symbol) =>
                 \A other \in Symbols \ {symbol} :
                     EntryOf(cache', other) = EntryOf(cache, other)]_vars

\* ------------------------------------------------------------------------
\* C28: interleaved calls on one cache file (specification SpecRace)
\* ------------------------------------------------------------------------
BothReturned == \A p \in RaceCalls : data[p].pc = "returned"

\* No call returns from the cache anything but the complete snapshot of a
\* call that wrote it.
ReadsAreComplete ==
    \A p \in RaceCalls :
        (data[p].pc = "returned" /\ data[p].from = "cache") =>
            \E q \in RaceCalls \ {p} :
                /\ data[q].from = "remote"
                /\ data[p].report = data[q].report

\* C28 as stated: when two fetch_latest_report calls for the same symbol
\* interleave, the entry finally holds the complete snapshot of the call
\* that wrote last, and no call returns the content of an entry another
\* call has only partly written.
C28_Original ==
    /\ ReadsAreComplete
    /\ (BothReturned /\ saveIn # 0) =>
          /\ ~Decode(cache.bytes).none
          /\ Decode(cache.bytes).report = data[saveIn].report

\* ------------------------------------------------------------------------
\* C29: the percentile history follows the chart (specification SpecView)
\* ------------------------------------------------------------------------
\* percentile_history has one entry per point of chart_data, with the same
\* dates in the same order, and current_percentile is the percentile of its
\* last entry (50.0 for an empty chart).
HistoryFollowsChart(state) ==
    /\ Len(state.percentile_history) = Len(state.chart_data)
    /\ \A k \in DOMAIN state.chart_data :
          state.percentile_history[k].date = state.chart_data[k].date
    /\ state.current_percentile
          = IF state.chart_data = <<>> THEN 500
            ELSE state.percentile_history[Len(state.chart_data)].percentile

\* After every event that calls _calculate_current_percentile_history the
\* percentile history follows the chart; it goes on doing so while a
\* refresh_data is suspended at its yield.
HistoryFollowsChartAfterRecalculation ==
    (\/ call.op \in {"init_data", "select_asset", "set_report_type",
                     "open_percentile_modal", "set_percentile_lookback",
                     "set_percentile_trader_type"}
     \/ call.op = "set_chart_data_view" /\ dash.chart_data_view = "percentile")
        => HistoryFollowsChart(dash)

\* C29 as stated: in every state reached after init_data by select_asset,
\* set_report_type, refresh_data, set_percentile_lookback and
\* set_percentile_trader_type events, percentile_history has exactly one
\* entry per point of chart_data with the same dates in the same order, and
\* current_percentile is the percentile of its last entry (50.0 when
\* chart_data is empty).
C29_Original == PageLoaded => HistoryFollowsChart(dash)

\* ------------------------------------------------------------------------
\* C30: the z-score panel follows the chart (specification SpecPanel)
\* ------------------------------------------------------------------------
\* After the events that recalculate it, the open panel shows the z-score
\* of the current chart, trader type and zoom level.
PanelFreshAfterRecalculation ==
    (/\ call.op \in {"toggle_zscore", "set_indicator_trader_type",
                      "set_chart_view_mode"}
     /\ dash.show_zscore_panel)
        => dash.zscore_data = _calculate_zscore(dash)

\* C30 as stated: whenever show_zscore_panel is true, zscore_data is the
\* value _calculate_zscore yields for the current chart_data,
\* indicator_trader_type and zoom_level, in every state reached by
\* toggle_zscore, select_asset, set_report_type, refresh_data,
\* set_indicator_trader_type and zoom events.
C30_Original ==
    dash.show_zscore_panel => dash.zscore_data = _calculate_zscore(dash)

====
